---------------------------- MODULE Spec2Model ----------------------------
(***************************************************************************)
(* A model of the BiesSimulation engine: the uniform spatial grid, the     *)
(* payoff resolution of agent encounters, the fixed-timestep game loop and *)
(* the World tick (movement, interaction, evolution, cleanup) with its     *)
(* object pools.                                                           *)
(*                                                                         *)
(* Coordinates, radii and energies are integers.  Grid coordinates are in  *)
(* units of half a cell; energies are in the program's own units.          *)
(***************************************************************************)
EXTENDS Integers, Sequences, FiniteSets, TLC

VARIABLES
    grid,        \* SpatialGrid under test: width, height, cols, rows, cells, entityCells, entityMap
    entPos,      \* position field of every entity handled by the grid
    isRunning,   \* GameLoop.isRunning
    accumulator, \* GameLoop.accumulator, in time units
    updateCount, \* local updateCount of GameLoop.loop
    rafPending,  \* the frame callback named by GameLoop.loopId is pending
    loopPc,      \* position of the frame callback: "idle" (not running) or "while" (in the update loop)
    updCalls,    \* the delta arguments passed to updateFn by the current (or last) frame callback
    loopDropped, \* the accumulated time the last frame callback discarded
    duel,        \* the two agents of an encounter, empty before they meet
    lastRes,     \* the records of the resolveAgentInteraction calls of the last interaction phase
    lastEaten,   \* the records of the food consumed in the last interaction phase, in removedFood order
    ratioSliders, \* Controls.ratioSliders: the value of the ratio slider of every strategy, in percent
    worldConfig, \* World.config as the control panel last set it: agentCount, foodCount, strategyRatios
    runtimeCfg,  \* the values of CONFIG and runtimeConfig the control panel writes
    spawnedAs,   \* the strategies of the agents the last init() spawned, in spawn order
    spawnedFood, \* the number of food items the last init() asked the food system for
    lastApply,   \* the control that last applied a configuration: "none", "reset", "preset", "import"
    applyCount,  \* the number of configurations applied so far
    pairSt,      \* a world of two neighbouring agents followed over many ticks, empty before it is built
    pairTick,    \* the number of updates that world has run
    pairLog,     \* the resolutions of that world: tick, ids of the pair, cooldowns held at entry
    world,       \* the World: objects, lists, pools, grids, paused, timeScale, statistics
    worldWidth,  \* the width getWorldDimensions() returns
    wpc,         \* position of World.update: "idle" or the phase to run next
    wasPaused,   \* local wasPaused of a running step(), empty otherwise
    scaledDelta, \* local scaledDelta of the running (or last) update
    tickNo,      \* number of updates that were not skipped
    tickArg,     \* the delta argument of the running (or last) update
    tickLog,     \* the kinds of events of the running (or last) update, in order
    lastCall,    \* the operation of World called last
    stepEntry,   \* the paused flag and tick number at the last call of step()
    acquired,    \* the agents acquireAgent handed out in the last evolution phase
    pastIds,     \* the ids every agent object has carried
    twinA,       \* the first of two worlds built from one seed and configuration, empty before
    twinB,       \* the second of the two worlds
    twinSeed,    \* the seed both worlds were built with
    twinTicks,   \* the number of ticks both worlds have run
    memAgent,  \* an agent whose encounter memory is written call by call
    memClock,  \* Date.now() of that agent's last call
    memCalls,  \* the number of rememberEncounter calls made on it
    memLast, \* the last rememberEncounter call: the memory before it, the opponent, the memory after it
    resetLog, \* the World.reset calls made: the world before, after the release loops of init, and the configuration
    bounceAgent,  \* one agent near the edge of a world in bounce mode, positions in 1/1800 px, speeds in 1/3 px/s; empty before it is spawned
    bounceScale,  \* the time scale of that world, in tenths
    bounceTicks,  \* the number of updates that world has run
    bounceKnocked, \* the agent was knocked back in the interaction phase of the last update
    loopId,  \* the id returned by the last requestAnimationFrame call of the game loop
    rafQueue,  \* the ids of the frame callbacks requested and neither run nor cancelled
    nextRaf,  \* the id the next requestAnimationFrame call returns
    stopReturned,  \* stop() has returned and start() was not called since
    lateUpdate, \* updateFn was invoked while stopReturned
    rngSeed,  \* the seed of the random number generator, as getSeed() returns it
    configStatus,  \* the text of the config status line
    pasteLog, \* the clicks on the paste button: the record, the state before and after, and how the handler ended
    optGrid,  \* a SpatialGridOptimized: the array of every cell, and entityCells
    optPos,  \* the position of every entity of that grid
    optLast  \* the last call made on that grid

gridVars == <<grid, entPos>>

loopVars == <<isRunning, accumulator, updateCount, rafPending, loopPc, updCalls, loopDropped>>

duelVars == <<duel, lastRes>>

worldVars == <<world, worldWidth, wpc, wasPaused, scaledDelta, tickNo, tickArg, tickLog,
               lastCall, stepEntry, acquired, pastIds, lastEaten>>

twinVars == <<twinA, twinB, twinSeed, twinTicks>>

ctlVars == <<ratioSliders, worldConfig, runtimeCfg, spawnedAs, spawnedFood, lastApply, applyCount>>

pairVars == <<pairSt, pairTick, pairLog>>

memVars == <<memAgent, memClock, memCalls, memLast>>

resetVars == <<resetLog>>

bounceVars == <<bounceAgent, bounceScale, bounceTicks, bounceKnocked>>

rafVars == <<loopId, rafQueue, nextRaf, stopReturned, lateUpdate>>

importVars == <<rngSeed, configStatus, pasteLog>>

optVars == <<optGrid, optPos, optLast>>

vars == <<gridVars, loopVars, duelVars, worldVars, twinVars, ctlVars, pairVars, memVars, resetVars, bounceVars, rafVars, importVars, optVars>>

\* what the actions of one component leave alone
gridFrame == <<loopVars, duelVars, worldVars, twinVars, ctlVars, pairVars, memVars, resetVars, bounceVars, rafVars, importVars, optVars>>

loopFrame == <<gridVars, duelVars, worldVars, twinVars, ctlVars, pairVars, memVars, resetVars, bounceVars, rafVars, importVars, optVars>>

duelFrame == <<gridVars, loopVars, worldVars, twinVars, ctlVars, pairVars, memVars, resetVars, bounceVars, rafVars, importVars, optVars>>

worldFrame == <<gridVars, loopVars, duel, twinVars, ctlVars, pairVars, memVars, resetVars, bounceVars, rafVars, importVars, optVars>>

worldResetFrame == <<gridVars, loopVars, duel, twinVars, ctlVars, pairVars, memVars, bounceVars, rafVars, importVars, optVars>>

twinFrame == <<gridVars, loopVars, duelVars, worldVars, ctlVars, pairVars, memVars, resetVars, bounceVars, rafVars, importVars, optVars>>

ctlFrame == <<gridVars, loopVars, duelVars, worldVars, twinVars, pairVars, memVars, resetVars, bounceVars, rafVars, importVars, optVars>>

pairFrame == <<gridVars, loopVars, duelVars, worldVars, twinVars, ctlVars, memVars, resetVars, bounceVars, rafVars, importVars, optVars>>

memFrame == <<gridVars, loopVars, duelVars, worldVars, twinVars, ctlVars, pairVars, resetVars, bounceVars, rafVars, importVars, optVars>>

resetFrame == <<gridVars, loopVars, duelVars, worldVars, twinVars, ctlVars, pairVars, memVars, bounceVars, rafVars, importVars, optVars>>

bounceFrame == <<gridVars, loopVars, duelVars, worldVars, twinVars, ctlVars, pairVars, memVars, resetVars, rafVars, importVars, optVars>>

rafFrame == <<gridVars, loopVars, duelVars, worldVars, twinVars, ctlVars, pairVars, memVars, resetVars, bounceVars, importVars, optVars>>

loopRafFrame == <<gridVars, duelVars, worldVars, twinVars, ctlVars, pairVars, memVars, resetVars, bounceVars, importVars, optVars>>

importFrame == <<gridVars, loopVars, duelVars, worldVars, twinVars, ctlVars, pairVars, memVars, resetVars, bounceVars, rafVars, optVars>>

ctlPasteFrame == <<gridVars, loopVars, duelVars, worldVars, twinVars, pairVars, memVars, resetVars, bounceVars, rafVars, optVars>>

optFrame == <<gridVars, loopVars, duelVars, worldVars, twinVars, ctlVars, pairVars, memVars, resetVars, bounceVars, rafVars, importVars>>

(***************************************************************************)
(* Arithmetic helpers (Math.floor, Math.ceil, Math.min, Math.max).         *)
(***************************************************************************)
Min(a, b) == IF a <= b THEN a ELSE b

Max(a, b) == IF a >= b THEN a ELSE b

FloorDiv(a, b) == a \div b

CeilDiv(a, b) == -((-a) \div b)

(***************************************************************************)
(* Bounds of the grid model.                                               *)
(***************************************************************************)
GridCellSize == 2

MaxGridW == 4

MaxGridH == 2

MaxRadius == 2

GridEntities == {"e1", "e2"}

GridWidths == GridCellSize..MaxGridW

GridHeights == GridCellSize..MaxGridH

\* entity and query positions: inside, on and one unit outside the world bounds
GridXs == -1..(MaxGridW + 1)

GridYs == 0..MaxGridH

GridPoints == GridXs \X GridYs

GridRadii == 0..MaxRadius

(***************************************************************************)
(* SpatialGrid                                                             *)
(***************************************************************************)
GridNew(w, h) ==
    [width |-> w, height |-> h,
     cols |-> CeilDiv(w, GridCellSize), rows |-> CeilDiv(h, GridCellSize),
     cells |-> << >>, entityCells |-> << >>, entityMap |-> << >>]

\* Map.set
MapPut(m, k, v) == [x \in DOMAIN m \cup {k} |-> IF x = k THEN v ELSE m[x]]

\* Map.delete
MapDel(m, k) == [x \in DOMAIN m \ {k} |-> m[x]]

getCellKey(g, x, y) ==
    <<FloorDiv(Max(0, Min(x, g.width - 1)), GridCellSize),
      FloorDiv(Max(0, Min(y, g.height - 1)), GridCellSize)>>

\* getCell: the cell under key, created empty when absent
getCell(cells, key) ==
    IF key \in DOMAIN cells THEN cells ELSE MapPut(cells, key, {})

\* the mutant of GridInsert: the entity is not taken out of its old cell
GridInsertKeepOld(g, id, ent, x, y) ==
    LET key == getCellKey(g, x, y)
        c1 == getCell(g.cells, key)
    IN [g EXCEPT !.cells = [c1 EXCEPT ![key] = @ \cup {id}],
                 !.entityCells = MapPut(@, id, key),
                 !.entityMap = MapPut(@, id, ent)]

\* insert(entity), for an entity with the given id and position
GridInsert(g, id, ent, x, y) ==
    LET key == getCellKey(g, x, y)
        c1 == getCell(g.cells, key)
        c2 == IF id \in DOMAIN g.entityCells
              THEN LET oldKey == g.entityCells[id]
                   IN IF oldKey # key /\ oldKey \in DOMAIN c1
                      THEN [c1 EXCEPT ![oldKey] = @ \ {id}]
                      ELSE c1
              ELSE c1
    IN [g EXCEPT !.cells = [c2 EXCEPT ![key] = @ \cup {id}],
                 !.entityCells = MapPut(@, id, key),
                 !.entityMap = MapPut(@, id, ent)]

\* update(entity) is insert(entity)
GridUpdate(g, id, ent, x, y) == GridInsert(g, id, ent, x, y)

\* remove(entity), for an entity with the given id
GridRemove(g, id) ==
    LET c1 == IF id \in DOMAIN g.entityCells
              THEN LET key == g.entityCells[id]
                   IN IF key \in DOMAIN g.cells
                      THEN [g.cells EXCEPT ![key] = @ \ {id}]
                      ELSE g.cells
              ELSE g.cells
    IN [g EXCEPT !.cells = c1,
                 !.entityCells = MapDel(@, id),
                 !.entityMap = MapDel(@, id)]

GridClear(g) == [g EXCEPT !.cells = << >>, !.entityCells = << >>, !.entityMap = << >>]

\* the loop of resize: insert every entity of the set, each under its current id and position
RECURSIVE GridInsertAll(_, _, _)
GridInsertAll(g, ents, entf) ==
    IF ents = {} THEN g
    ELSE LET e == CHOOSE x \in ents : TRUE
         IN GridInsertAll(GridInsert(g, entf[e].id, e, entf[e].x, entf[e].y),
                          ents \ {e}, entf)

\* resize(width, height); entf gives the current id and position of every entity
GridResize(g, w, h, entf) ==
    LET entities == {g.entityMap[i] : i \in DOMAIN g.entityMap}
        g1 == [g EXCEPT !.width = w, !.height = h,
                        !.cols = CeilDiv(w, GridCellSize),
                        !.rows = CeilDiv(h, GridCellSize)]
    IN GridInsertAll(GridClear(g1), entities, entf)

DistSq(x1, y1, x2, y2) == (x1 - x2) * (x1 - x2) + (y1 - y2) * (y1 - y2)

\* SpatialGrid.queryRadius: the (cell, id) pairs pushed to the result,
\* one result element per pair; posf gives the position of every entity
queryRadius(g, posf, px, py, radius) ==
    LET radiusSq == radius * radius
        minCol == FloorDiv(px - radius, GridCellSize)
        maxCol == CeilDiv(px + radius, GridCellSize)
        minRow == FloorDiv(py - radius, GridCellSize)
        maxRow == CeilDiv(py + radius, GridCellSize)
    IN {hit \in UNION {{<<key, id>> : id \in g.cells[key]} : key \in DOMAIN g.cells} :
          /\ hit[1][1] \in minCol..maxCol
          /\ hit[1][2] \in minRow..maxRow
          /\ ~(hit[1][1] < 0 \/ hit[1][1] >= g.cols \/ hit[1][2] < 0 \/ hit[1][2] >= g.rows)
          /\ hit[2] \in DOMAIN g.entityMap
          /\ LET e == g.entityMap[hit[2]]
             IN DistSq(px, py, posf[e][1], posf[e][2]) <= radiusSq}

\* OptimizedSpatialGrid.queryRadius: the cell range is clamped to the grid first
queryRadiusOptimized(g, posf, px, py, radius) ==
    LET radiusSq == radius * radius
        minCol == Max(0, FloorDiv(px - radius, GridCellSize))
        maxCol == Min(g.cols - 1, CeilDiv(px + radius, GridCellSize))
        minRow == Max(0, FloorDiv(py - radius, GridCellSize))
        maxRow == Min(g.rows - 1, CeilDiv(py + radius, GridCellSize))
    IN {hit \in UNION {{<<key, id>> : id \in g.cells[key]} : key \in DOMAIN g.cells} :
          /\ hit[1][1] \in minCol..maxCol
          /\ hit[1][2] \in minRow..maxRow
          /\ hit[2] \in DOMAIN g.entityMap
          /\ LET e == g.entityMap[hit[2]]
             IN DistSq(px, py, posf[e][1], posf[e][2]) <= radiusSq}

\* how often entity e occurs in a query result
Occurrences(hits, g, e) == Cardinality({hit \in hits : g.entityMap[hit[2]] = e})

(***************************************************************************)
(* GameLoop: the fixed-timestep accumulator loop.  Time is counted in      *)
(* units of 1/LoopResolution of a timestep (a timestep is 1/60 s).         *)
(***************************************************************************)
LoopResolution == 4

\* timeStep = 1/60 s
timeStep == LoopResolution

\* Math.min(deltaTime, 0.25): 0.25 s is 15 timesteps
SafeDeltaCap == 15 * LoopResolution

maxUpdates == 5

\* wall-clock time between two frame callbacks: from nothing to more than the cap
FrameDeltas == 0..(SafeDeltaCap + LoopResolution)

LoopInit ==
    /\ isRunning = FALSE
    /\ accumulator = 0
    /\ updateCount = 0
    /\ rafPending = FALSE
    /\ loopPc = "idle"
    /\ updCalls = << >>
    /\ loopDropped = 0

\* start()
LoopStart ==
    /\ loopPc = "idle"
    /\ IF ~isRunning
       THEN /\ isRunning' = TRUE
            /\ rafPending' = TRUE
       ELSE UNCHANGED <<isRunning, rafPending>>
    /\ UNCHANGED <<accumulator, updateCount, loopPc, updCalls, loopDropped, loopFrame>>

\* stop()
LoopStop ==
    /\ loopPc = "idle"
    /\ isRunning' = FALSE
    /\ rafPending' = FALSE
    /\ UNCHANGED <<accumulator, updateCount, loopPc, updCalls, loopDropped, loopFrame>>

\* loop(currentTime), up to the while loop; deltaTime is the time since the last frame
FrameBegin(deltaTime) ==
    /\ loopPc = "idle"
    /\ rafPending
    /\ rafPending' = FALSE
    /\ IF ~isRunning
       THEN UNCHANGED <<accumulator, updateCount, loopPc, updCalls, loopDropped>>
       ELSE /\ accumulator' = accumulator + Min(deltaTime, SafeDeltaCap)
            /\ updateCount' = 0
            /\ updCalls' = << >>
            /\ loopDropped' = 0
            /\ loopPc' = "while"
    /\ UNCHANGED <<isRunning, loopFrame>>

\* the mutant of LoopContinues: no cap on the number of updates
LoopContinuesNoCap(acc, count) == acc >= timeStep

\* the condition of the while loop
LoopContinues(acc, count) == acc >= timeStep /\ count < maxUpdates

\* one iteration of the while loop: updateFn(timeStep)
FrameUpdate ==
    /\ loopPc = "while"
    /\ LoopContinues(accumulator, updateCount)
    /\ updCalls' = Append(updCalls, timeStep)
    /\ accumulator' = accumulator - timeStep
    /\ updateCount' = updateCount + 1
    /\ UNCHANGED <<isRunning, rafPending, loopPc, loopDropped, loopFrame>>

\* the mutant of AccAfterLoop: the backlog is kept
AccAfterLoopKeep(acc, count) == acc

\* the accumulator after the while loop: reset when the cap was reached
AccAfterLoop(acc, count) == IF count >= maxUpdates THEN 0 ELSE acc

\* the rest of loop: accumulator reset, render, next frame requested
FrameEnd ==
    /\ loopPc = "while"
    /\ ~LoopContinues(accumulator, updateCount)
    /\ accumulator' = AccAfterLoop(accumulator, updateCount)
    /\ loopDropped' = accumulator - accumulator'
    /\ rafPending' = TRUE
    /\ loopPc' = "idle"
    /\ UNCHANGED <<isRunning, updateCount, updCalls, loopFrame>>

(***************************************************************************)
(* The grid as a state machine: any sequence of insert, update, remove,    *)
(* resize and clear calls.  An entity's position changes only between grid *)
(* calls, so insert and update take the position the entity has at the     *)
(* call.                                                                   *)
(***************************************************************************)
GridEntf == [e \in GridEntities |-> [id |-> e, x |-> entPos[e][1], y |-> entPos[e][2]]]

GridInit ==
    /\ grid = GridNew(MaxGridW, MaxGridH)
    /\ entPos = [e \in GridEntities |-> <<0, 0>>]

GInsert(e, p) ==
    /\ entPos' = [entPos EXCEPT ![e] = p]
    /\ grid' = GridInsert(grid, e, e, p[1], p[2])
    /\ UNCHANGED gridFrame

GUpdate(e, p) ==
    /\ e \in DOMAIN grid.entityMap
    /\ entPos' = [entPos EXCEPT ![e] = p]
    /\ grid' = GridUpdate(grid, e, e, p[1], p[2])
    /\ UNCHANGED gridFrame

GRemove(e) ==
    /\ grid' = GridRemove(grid, e)
    /\ UNCHANGED <<entPos, gridFrame>>

GResize(w, h) ==
    /\ grid' = GridResize(grid, w, h, GridEntf)
    /\ UNCHANGED <<entPos, gridFrame>>

GClear ==
    /\ grid' = GridClear(grid)
    /\ UNCHANGED <<entPos, gridFrame>>


GridTracked == {grid.entityMap[i] : i \in DOMAIN grid.entityMap}

(***************************************************************************)
(* CONFIG (globalConfig).  Traits are in tenths (aggression 0.5 is 5).     *)
(***************************************************************************)
STARTING_ENERGY == 100

MAX_ENERGY == 200

FOOD_VALUE == 25

FIGHT_COST == 10

INTERACTION_COOLDOWN == 60

KNOCKBACK_FORCE == 300

DEFAULT_SPEED == 100

MAX_SPEED == 150

DEFAULT_MEMORY_SIZE == 5

ActionTypes == {"FIGHT", "SHARE", "FLEE", "IGNORE"}

StrategyTypes == {"Aggressive", "Passive", "Cooperative", "TitForTat", "Random"}

\* CONFIG.PAYOFF: the stored keys and their [first, second] outcome pairs
PAYOFF ==
    [FIGHT_FIGHT |-> <<-20, -20>>,
     FIGHT_SHARE |-> <<30, -10>>,
     FIGHT_FLEE  |-> <<10, 0>>,
     SHARE_SHARE |-> <<15, 15>>,
     SHARE_FLEE  |-> <<5, 0>>,
     FLEE_FLEE   |-> <<0, 0>>]

\* `${action1}_${action2}`
PayoffKey(action1, action2) == action1 \o "_" \o action2

DEFAULT_TRAITS == [speed |-> 10, vision |-> 10, aggression |-> 5, stamina |-> 10]

\* the traits randomTraits() can return: a timid and a bold individual
RandomTraitChoices ==
    {[speed |-> 8, vision |-> 10, aggression |-> 2, stamina |-> 10],
     [speed |-> 11, vision |-> 10, aggression |-> 8, stamina |-> 10]}

\* Math.random() in twelfths: one draw for each outcome of floor(4u), floor(3u) and u < 0.3
RandomDraws == {0, 3, 6, 9}

(***************************************************************************)
(* Agent.  An agent is a record; velocity and acceleration are the signed  *)
(* components along the axis of the one-dimensional arena, the encounter   *)
(* memory is the Map in insertion order, the cooldowns a Map id -> ticks.  *)
(***************************************************************************)
\* the velocity set by the constructor and by resetForSpawn: a unit direction times the trait speed
SpawnVelocity(traits, dir) == dir * ((DEFAULT_SPEED * traits.speed) \div 10)

\* new Agent(x, y, strategyType, traits) as the pool factory calls it; the id is set by resetForSpawn
AgentNew ==
    [id |-> 0, x |-> 0, isDead |-> FALSE, energy |-> STARTING_ENERGY, age |-> 0,
     reproductionCooldown |-> 0, interactionCooldowns |-> << >>, encounterMemory |-> << >>,
     velocity |-> SpawnVelocity(DEFAULT_TRAITS, 1), acceleration |-> 0,
     traits |-> DEFAULT_TRAITS, strategyType |-> "Random"]

\* the mutant of resetForSpawn: the energy left by the earlier life is kept
resetForSpawnKeepEnergy(a, newId, x, strategyType, traits, dir) ==
    [a EXCEPT !.id = newId, !.x = x, !.isDead = FALSE, !.traits = traits,
              !.velocity = SpawnVelocity(traits, dir), !.acceleration = 0,
              !.age = 0, !.reproductionCooldown = 0,
              !.interactionCooldowns = << >>, !.encounterMemory = << >>,
              !.strategyType = strategyType]

\* resetForSpawn(x, y, strategyType, traits): newId is the fresh UUID, traits the
\* merged or random traits, dir the random unit direction
resetForSpawn(a, newId, x, strategyType, traits, dir) ==
    [a EXCEPT !.id = newId, !.x = x, !.isDead = FALSE, !.traits = traits,
              !.velocity = SpawnVelocity(traits, dir), !.acceleration = 0,
              !.energy = STARTING_ENERGY, !.age = 0, !.reproductionCooldown = 0,
              !.interactionCooldowns = << >>, !.encounterMemory = << >>,
              !.strategyType = strategyType]

resetToPool(a) ==
    [a EXCEPT !.isDead = FALSE, !.energy = 0, !.age = 0, !.reproductionCooldown = 0,
              !.interactionCooldowns = << >>, !.encounterMemory = << >>]

\* the mutant of gainEnergy: no cap at MAX_ENERGY
gainEnergyNoCap(a, amount) == [a EXCEPT !.energy = a.energy + amount]

gainEnergy(a, amount) == [a EXCEPT !.energy = Min(a.energy + amount, MAX_ENERGY)]

\* drainMovementEnergy and drainBaseEnergy together: cost is what both subtract
drainEnergy(a, cost) == [a EXCEPT !.energy = a.energy - cost]

isOnCooldown(a, otherId) == otherId \in DOMAIN a.interactionCooldowns

setCooldown(a, otherId) ==
    [a EXCEPT !.interactionCooldowns = MapPut(a.interactionCooldowns, otherId, INTERACTION_COOLDOWN)]

\* the mutant of DecayCooldowns: a cooldown loses two ticks in each update
DecayCooldownsFast(cd) ==
    [i \in {j \in DOMAIN cd : cd[j] - 2 > 0} |-> cd[i] - 2]

\* the decay loop of updatePhysics: every cooldown loses one tick, and is deleted at 0
DecayCooldowns(cd) ==
    [i \in {j \in DOMAIN cd : cd[j] - 1 > 0} |-> cd[i] - 1]

\* Vector2.limit in one dimension
Limit(v, max) == IF v > max THEN max ELSE IF v < -max THEN -max ELSE v

\* velocity * delta in length units, rounded towards zero: an agent at DEFAULT_SPEED
\* covers one unit in a fixed timestep of 10 time units
Displacement(velocity, delta) ==
    IF velocity >= 0 THEN (velocity * delta) \div (DEFAULT_SPEED * 10)
    ELSE -(((-velocity) * delta) \div (DEFAULT_SPEED * 10))

\* updatePhysics(delta): the speed limit, the reset of the acceleration, age and cooldowns
updatePhysics(a, delta) ==
    [a EXCEPT !.velocity = Limit(a.velocity, (MAX_SPEED * a.traits.speed) \div 10),
              !.x = a.x + Displacement(Limit(a.velocity, (MAX_SPEED * a.traits.speed) \div 10), delta),
              !.acceleration = 0,
              !.age = a.age + delta,
              !.reproductionCooldown =
                  IF a.reproductionCooldown > 0 THEN a.reproductionCooldown - delta
                  ELSE a.reproductionCooldown,
              !.interactionCooldowns = DecayCooldowns(a.interactionCooldowns)]

\* the mutant of applyKnockback: the impulse is halved
applyKnockbackHalved(a, dir, force) == [a EXCEPT !.velocity = a.velocity + dir * (force \div 2)]

applyKnockback(a, dir, force) == [a EXCEPT !.velocity = a.velocity + dir * force]

\* encounterMemory.get(id): the entry for id as a one-element sequence, empty when undefined
getMemory(a, otherId) ==
    LET hits == {i \in 1..Len(a.encounterMemory) : a.encounterMemory[i].agentId = otherId}
    IN IF hits = {} THEN << >> ELSE <<a.encounterMemory[CHOOSE i \in hits : TRUE]>>

\* the eviction scan of rememberEncounter: the first entry with the smallest timestamp
OldestIndex(mem) ==
    CHOOSE i \in 1..Len(mem) :
        /\ \A j \in 1..Len(mem) : mem[i].timestamp <= mem[j].timestamp
        /\ \A j \in 1..(i - 1) : mem[j].timestamp > mem[i].timestamp

SeqWithout(s, i) == [j \in 1..(Len(s) - 1) |-> IF j < i THEN s[j] ELSE s[j + 1]]

\* the mutant of rememberEncounter: the entry records no action of the other agent
rememberEncounterBlank(a, otherId, action, outcome, now) ==
    LET mem0 == a.encounterMemory
        mem1 == IF Len(mem0) >= DEFAULT_MEMORY_SIZE THEN SeqWithout(mem0, OldestIndex(mem0)) ELSE mem0
        entry == [agentId |-> otherId, lastAction |-> "IGNORE", timestamp |-> now, outcome |-> outcome]
        hits == {i \in 1..Len(mem1) : mem1[i].agentId = otherId}
    IN [a EXCEPT !.encounterMemory =
            IF hits = {} THEN Append(mem1, entry)
            ELSE [i \in 1..Len(mem1) |-> IF i \in hits THEN entry ELSE mem1[i]]]

\* rememberEncounter(agentId, action, outcome) at time now (Date.now())
rememberEncounter(a, otherId, action, outcome, now) ==
    LET mem0 == a.encounterMemory
        mem1 == IF Len(mem0) >= DEFAULT_MEMORY_SIZE THEN SeqWithout(mem0, OldestIndex(mem0)) ELSE mem0
        entry == [agentId |-> otherId, lastAction |-> action, timestamp |-> now, outcome |-> outcome]
        hits == {i \in 1..Len(mem1) : mem1[i].agentId = otherId}
    IN [a EXCEPT !.encounterMemory =
            IF hits = {} THEN Append(mem1, entry)
            ELSE [i \in 1..Len(mem1) |-> IF i \in hits THEN entry ELSE mem1[i]]]

(***************************************************************************)
(* Strategies (BaseStrategy helpers and one decideAction per strategy).    *)
(***************************************************************************)
\* energy > fightCost * 1.5
canFight(agent, fightCost) == 2 * agent.energy > 3 * fightCost

isLowEnergy(agent) == agent.energy < 30

isStronger(self, other) ==
    self.energy * self.traits.aggression > other.energy * other.traits.aggression

AggressiveDecide(self) == IF isLowEnergy(self) THEN "FLEE" ELSE "FIGHT"

\* aggression > 0.6
PassiveDecide(self, other) == IF other.traits.aggression > 6 THEN "FLEE" ELSE "SHARE"

\* the mutant of TitForTatDecide: any remembered opponent is fought
TitForTatDecideGrudge(self, memory) ==
    IF isLowEnergy(self) THEN "FLEE"
    ELSE IF memory = << >> THEN "SHARE"
    ELSE IF canFight(self, 10) THEN "FIGHT" ELSE "FLEE"

TitForTatDecide(self, memory) ==
    IF isLowEnergy(self) THEN "FLEE"
    ELSE IF memory = << >> THEN "SHARE"
    ELSE IF memory[1].lastAction = "FIGHT"
         THEN (IF canFight(self, 10) THEN "FIGHT" ELSE "FLEE")
         ELSE "SHARE"

\* rnd is the Math.random() draw, in twelfths; Math.random() < 0.3
CooperativeDecide(self, other, memory, rnd) ==
    IF memory # << >> /\ memory[1].lastAction = "FIGHT"
    THEN (IF canFight(self, 10) THEN "FIGHT" ELSE "FLEE")
    ELSE IF isLowEnergy(self) THEN "SHARE"
    ELSE IF isStronger(self, other) /\ self.energy < 60 /\ 10 * rnd < 36 THEN "FIGHT"
    ELSE "SHARE"

\* safeActions[Math.floor(Math.random() * 3)] and actions[Math.floor(Math.random() * 4)]
RandomDecide(self, rnd) ==
    IF isLowEnergy(self)
    THEN <<"SHARE", "FLEE", "IGNORE">>[(rnd \div 4) + 1]
    ELSE <<"FIGHT", "SHARE", "FLEE", "IGNORE">>[(rnd \div 3) + 1]

\* Agent.decideAction(other): the strategy's decision, given the memory of the other
decideAction(self, other, rnd) ==
    LET memory == getMemory(self, other.id)
    IN CASE self.strategyType = "Aggressive" -> AggressiveDecide(self)
         [] self.strategyType = "Passive" -> PassiveDecide(self, other)
         [] self.strategyType = "TitForTat" -> TitForTatDecide(self, memory)
         [] self.strategyType = "Cooperative" -> CooperativeDecide(self, other, memory, rnd)
         [] OTHER -> RandomDecide(self, rnd)

\* the strategies that define onEncounterResult (it calls rememberEncounter)
hasOnEncounterResult(strategyType) == strategyType \in {"Cooperative", "TitForTat"}

(***************************************************************************)
(* InteractionSystem: payoff lookup and the resolution of one encounter.   *)
(***************************************************************************)
\* the mutant of calculatePayoff: the outcomes of a reversed key are not swapped
calculatePayoffNoSwap(action1, action2) ==
    LET key == PayoffKey(action1, action2)
        reverseKey == PayoffKey(action2, action1)
    IN IF action1 = "IGNORE" \/ action2 = "IGNORE" THEN <<0, 0>>
       ELSE IF key \in DOMAIN PAYOFF THEN <<PAYOFF[key][1], PAYOFF[key][2]>>
       ELSE IF reverseKey \in DOMAIN PAYOFF THEN <<PAYOFF[reverseKey][1], PAYOFF[reverseKey][2]>>
       ELSE <<0, 0>>

calculatePayoff(action1, action2) ==
    LET key == PayoffKey(action1, action2)
        reverseKey == PayoffKey(action2, action1)
    IN IF action1 = "IGNORE" \/ action2 = "IGNORE" THEN <<0, 0>>
       ELSE IF key \in DOMAIN PAYOFF THEN <<PAYOFF[key][1], PAYOFF[key][2]>>
       ELSE IF reverseKey \in DOMAIN PAYOFF THEN <<PAYOFF[reverseKey][2], PAYOFF[reverseKey][1]>>
       ELSE <<0, 0>>

\* the switch of the batched interaction system, one case per action pair
calculatePayoffFast(action1, action2) ==
    LET key == PayoffKey(action1, action2)
        p == PAYOFF
    IN IF action1 = "IGNORE" \/ action2 = "IGNORE" THEN <<0, 0>>
       ELSE CASE key = "FIGHT_FIGHT" -> <<p.FIGHT_FIGHT[1], p.FIGHT_FIGHT[2]>>
              [] key = "FIGHT_SHARE" -> <<p.FIGHT_SHARE[1], p.FIGHT_SHARE[2]>>
              [] key = "FIGHT_FLEE" -> <<p.FIGHT_FLEE[1], p.FIGHT_FLEE[2]>>
              [] key = "SHARE_FIGHT" -> <<p.FIGHT_SHARE[2], p.FIGHT_SHARE[1]>>
              [] key = "SHARE_SHARE" -> <<p.SHARE_SHARE[1], p.SHARE_SHARE[2]>>
              [] key = "SHARE_FLEE" -> <<p.SHARE_FLEE[1], p.SHARE_FLEE[2]>>
              [] key = "FLEE_FIGHT" -> <<p.FIGHT_FLEE[2], p.FIGHT_FLEE[1]>>
              [] key = "FLEE_SHARE" -> <<p.SHARE_FLEE[2], p.SHARE_FLEE[1]>>
              [] key = "FLEE_FLEE" -> <<p.FLEE_FLEE[1], p.FLEE_FLEE[2]>>
              [] OTHER -> <<0, 0>>

Outcome(mine, theirs) == IF mine > theirs THEN "won" ELSE IF mine < theirs THEN "lost" ELSE "tie"

\* Math.max(0, Math.min(CONFIG.MAX_ENERGY, energy))
ClampEnergy(energy) == Max(0, Min(MAX_ENERGY, energy))

Sign(n) == IF n > 0 THEN 1 ELSE IF n < 0 THEN -1 ELSE 0

\* the mutant of resolveAgentInteraction's surcharge: charged to a fighter also when the other ignores
FightSurchargeAlways(mine, theirs) == IF mine = "FIGHT" THEN FIGHT_COST ELSE 0

\* the FIGHT_COST subtracted from the side that chose mine against theirs
FightSurcharge(mine, theirs) ==
    IF mine # "IGNORE" /\ theirs # "IGNORE" /\ mine = "FIGHT" THEN FIGHT_COST ELSE 0

\* resolveAgentInteraction(agent1, agent2): rnd1 and rnd2 are the random draws of the
\* two decisions, now is Date.now().  The result holds both agents after the call
\* and, for the record, the actions, the outcomes and the energies before the clamp.
resolveAgentInteraction(agent1, agent2, rnd1, rnd2, now) ==
    LET action1 == decideAction(agent1, agent2, rnd1)
        action2 == decideAction(agent2, agent1, rnd2)
        outcome == calculatePayoff(action1, action2)
        raw1 == agent1.energy + outcome[1] - FightSurcharge(action1, action2)
        raw2 == agent2.energy + outcome[2] - FightSurcharge(action2, action1)
        e1 == ClampEnergy(raw1)
        e2 == ClampEnergy(raw2)
        direction == Sign(agent2.x - agent1.x)
        k1 == IF action2 = "FIGHT" THEN applyKnockback(agent1, direction, -KNOCKBACK_FORCE) ELSE agent1
        k2 == IF action1 = "FIGHT" THEN applyKnockback(agent2, direction, KNOCKBACK_FORCE) ELSE agent2
        m1 == IF hasOnEncounterResult(agent1.strategyType)
              THEN rememberEncounter(k1, agent2.id, action2, Outcome(outcome[1], outcome[2]), now)
              ELSE k1
        m2 == IF hasOnEncounterResult(agent2.strategyType)
              THEN rememberEncounter(k2, agent1.id, action1, Outcome(outcome[2], outcome[1]), now)
              ELSE k2
        c1 == setCooldown(m1, agent2.id)
        c2 == setCooldown(m2, agent1.id)
    IN [agent1 |-> [c1 EXCEPT !.energy = e1, !.isDead = (c1.isDead \/ e1 <= 0)],
        agent2 |-> [c2 EXCEPT !.energy = e2, !.isDead = (c2.isDead \/ e2 <= 0)],
        action1 |-> action1, action2 |-> action2, outcome |-> outcome,
        before |-> <<agent1.energy, agent2.energy>>,
        raw |-> <<raw1, raw2>>,
        entry |-> <<[x |-> agent1.x, velocity |-> agent1.velocity, isDead |-> agent1.isDead,
                     encounterMemory |-> agent1.encounterMemory, energy |-> agent1.energy,
                     onCooldown |-> isOnCooldown(agent1, agent2.id)],
                    [x |-> agent2.x, velocity |-> agent2.velocity, isDead |-> agent2.isDead,
                     encounterMemory |-> agent2.encounterMemory, energy |-> agent2.energy,
                     onCooldown |-> isOnCooldown(agent2, agent1.id)]>>]

(***************************************************************************)
(* One encounter as a state machine: two agents in any state the running   *)
(* simulation brings them to an encounter in, then one resolution.  An     *)
(* agent can enter with an energy below 0: the movement drain is applied   *)
(* before the interactions of the same tick and does not clamp.            *)
(***************************************************************************)
DuelEnergies == {-1, 10, 20, 50, 195}

DuelTraits == RandomTraitChoices

\* what an agent remembers of the other before the encounter: nothing, or its last action
DuelMemories == {"none", "FIGHT"}

\* where the second agent stands: left of the first, on it, right of it
DuelPositions == {0, 1, 2}

DuelAgent(id, otherId, x, strategyType, energy, traits, remembered) ==
    [AgentNew EXCEPT !.id = id, !.x = x, !.strategyType = strategyType, !.energy = energy,
                     !.traits = traits, !.velocity = SpawnVelocity(traits, 1),
                     !.encounterMemory =
                         IF remembered = "none" \/ ~hasOnEncounterResult(strategyType) THEN << >>
                         ELSE <<[agentId |-> otherId, lastAction |-> remembered,
                                 timestamp |-> 0, outcome |-> "tie"]>>]

DuelInit ==
    /\ duel = << >>
    /\ lastRes = << >>

\* two live agents within interaction distance that are not on cooldown with each other
DuelMeet(s1, s2, e1, e2, t1, t2, m1, m2, x2) ==
    /\ duel = << >>
    /\ duel' = <<DuelAgent(1, 2, 1, s1, e1, t1, m1), DuelAgent(2, 1, x2, s2, e2, t2, m2)>>
    /\ UNCHANGED <<lastRes, duelFrame>>

\* resolveAgentInteraction(agent1, agent2)
DuelResolve(rnd1, rnd2) ==
    /\ duel # << >>
    /\ lastRes = << >>
    /\ lastRes' = <<resolveAgentInteraction(duel[1], duel[2], rnd1, rnd2, 1)>>
    /\ duel' = <<lastRes'[1].agent1, lastRes'[1].agent2>>
    /\ UNCHANGED duelFrame

(***************************************************************************)
(* World.  Lengths are in units of COLLISION_RADIUS (15 px), positions lie *)
(* on the x axis of an arena ArenaWidth wide; simulated time is in units   *)
(* of 1/600 s, so that the fixed timestep of 1/60 s is 10 and a time scale *)
(* in tenths multiplies it exactly.  Agent and food objects are numbered:  *)
(* object k is the k-th object its pool's factory has constructed.         *)
(***************************************************************************)
ArenaWidth == MaxGridW

ArenaHeight == MaxGridH

\* the y coordinate of every entity
ArenaY == 1

\* 1/60 s
FixedStep == 10

\* the configured agent cap and population floor, and the food the food system keeps up
MaxAgentsCap == 3

MinPopulation == 2

MaxFood == 2

\* at most MaxAgentsCap agents start a tick; all can die and the floor be respawned before the cleanup
AgentObjs == 1..(MaxAgentsCap + MinPopulation)

FoodObjs == 1..MaxFood

\* new Food(0, 0, 0) as the pool factory calls it
FoodNew == [id |-> 0, x |-> 0, isDead |-> FALSE, energyValue |-> 0]

\* Food.resetForSpawn(x, y)
foodResetForSpawn(f, newId, x) ==
    [f EXCEPT !.id = newId, !.x = x, !.isDead = FALSE, !.energyValue = FOOD_VALUE]

\* Food.resetToPool()
foodResetToPool(f) == [f EXCEPT !.isDead = FALSE]

\* the elements of a set of numbers in ascending order
RECURSIVE SortedSeq(_)
SortedSeq(S) ==
    IF S = {} THEN << >>
    ELSE LET m == CHOOSE x \in S : \A y \in S : x <= y
         IN <<m>> \o SortedSeq(S \ {m})

SeqRange(s) == {s[i] : i \in 1..Len(s)}

\* ObjectPool.acquire: pop the free list, or construct the next object
PoolAcquire(pool, made) ==
    IF Len(pool) > 0
    THEN [obj |-> pool[Len(pool)], pool |-> SubSeq(pool, 1, Len(pool) - 1), made |-> made, fresh |-> FALSE]
    ELSE [obj |-> made + 1, pool |-> pool, made |-> made + 1, fresh |-> TRUE]

\* the mutant of PoolAccepts: release pushes whatever the size of the pool
PoolAcceptsAlways(pool, maxSize) == TRUE

\* ObjectPool.release: below maxSize the object is reset and pushed
PoolAccepts(pool, maxSize) == Len(pool) < maxSize

\* maxSize of the agent pool and of the food pool
AGENT_POOL_MAX == 300

FOOD_POOL_MAX == 500

\* new World(config) before init(): empty lists, pools and grids, not paused, time scale 1
WorldNew ==
    [agentObj |-> [o \in AgentObjs |-> AgentNew],
     foodObj |-> [o \in FoodObjs |-> FoodNew],
     agentMade |-> 0, foodMade |-> 0, nextId |-> 1,
     agents |-> << >>, food |-> << >>,
     agentPool |-> << >>, foodPool |-> << >>,
     agentPoolMax |-> AGENT_POOL_MAX, foodPoolMax |-> FOOD_POOL_MAX,
     agentGrid |-> GridNew(ArenaWidth, ArenaHeight),
     foodGrid |-> GridNew(ArenaWidth, ArenaHeight),
     lastWorldWidth |-> ArenaWidth,
     paused |-> FALSE, timeScale |-> 10,
     stats |-> [births |-> 0, deaths |-> 0, totalBirths |-> 0, totalDeaths |-> 0]]

\* the traits resetForSpawn installs: { ...DEFAULT_TRAITS, ...traits } or randomTraits()
SpawnTraits(traitsReq, rndTraits) == IF traitsReq = << >> THEN rndTraits ELSE traitsReq[1]

\* strategyType || 'Random'
SpawnStrategy(strategyReq) == IF strategyReq = "" THEN "Random" ELSE strategyReq

\* acquireAgent(x, y, strategyType, traits) on the state st = [w, acq, past]: w is the
\* world, acq the record of the hand-outs of the running operation, past the ids every
\* object carried before.  strategyReq is "" and traitsReq empty when the caller passes none;
\* rndTraits and dir are the random traits and direction resetForSpawn would draw.
acquireAgent(st, x, strategyReq, traitsReq, rndTraits, dir) ==
    LET w == st.w
        p == PoolAcquire(w.agentPool, w.agentMade)
        agent == resetForSpawn(w.agentObj[p.obj], w.nextId, x, SpawnStrategy(strategyReq),
                               SpawnTraits(traitsReq, rndTraits), dir)
    IN [w |-> [w EXCEPT !.agentObj[p.obj] = agent, !.agentPool = p.pool,
                        !.agentMade = p.made, !.nextId = w.nextId + 1],
        obj |-> p.obj,
        acq |-> Append(st.acq, [obj |-> p.obj, agent |-> agent, fresh |-> p.fresh,
                                strategyReq |-> strategyReq, traitsReq |-> traitsReq,
                                oldIds |-> st.past[p.obj]]),
        past |-> [st.past EXCEPT ![p.obj] = @ \cup {w.nextId}]]

\* acquireFood(x, y)
acquireFood(w, x) ==
    LET p == PoolAcquire(w.foodPool, w.foodMade)
    IN [w |-> [w EXCEPT !.foodObj[p.obj] = foodResetForSpawn(w.foodObj[p.obj], w.nextId, x),
                        !.foodPool = p.pool, !.foodMade = p.made, !.nextId = w.nextId + 1],
        obj |-> p.obj]

\* spawnAgent(strategyType) with the random position x: acquire, push, insert into the grid
spawnAgent(st, x, strategyReq, rndTraits, dir) ==
    LET a == acquireAgent(st, x, strategyReq, << >>, rndTraits, dir)
        id == a.w.agentObj[a.obj].id
    IN [a EXCEPT !.w = [a.w EXCEPT !.agents = Append(@, a.obj),
                                   !.agentGrid = GridInsert(@, id, a.obj, x, ArenaY)]]

\* the food spawned by the food system, pushed and inserted by World
spawnFood(w, x) ==
    LET f == acquireFood(w, x)
        id == f.w.foodObj[f.obj].id
    IN [f.w EXCEPT !.food = Append(@, f.obj),
                   !.foodGrid = GridInsert(@, id, f.obj, x, ArenaY)]

\* MovementSystem.boundaries in bounce mode: the hard clamp of the position
boundaries(a) == [a EXCEPT !.x = Max(0, Min(ArenaWidth, a.x))]

\* one iteration of MovementSystem.update followed by this agent's updatePhysics;
\* the steering forces change the velocity by less than one unit a tick and are left out
MoveAgent(a, delta, cost) ==
    IF a.isDead THEN a ELSE updatePhysics(drainEnergy(boundaries(a), cost), delta)

\* movementSystem.update(agents, ..., scaledDelta) and the updatePhysics loop of World.update
MovementPhase(w, delta, cost) ==
    [w EXCEPT !.agentObj =
        [o \in AgentObjs |-> IF o \in SeqRange(w.agents) THEN MoveAgent(@[o], delta, cost) ELSE @[o]]]

\* the grid updates that open InteractionSystem.update: every live entity of the list
RECURSIVE UpdateGrid(_, _, _, _)
UpdateGrid(g, list, objs, i) ==
    IF i > Len(list) THEN g
    ELSE LET e == objs[list[i]]
         IN UpdateGrid(IF e.isDead THEN g ELSE GridUpdate(g, e.id, list[i], e.x, ArenaY),
                       list, objs, i + 1)

\* queryNear(entity, radius): the objects queryRadius returns around (x, ArenaY), without
\* those carrying the id of the asking entity; positions are those of the objects now
queryNear(g, objs, selfId, x, radius) ==
    LET posf == [o \in DOMAIN objs |-> <<objs[o].x, ArenaY>>]
        hits == queryRadius(g, posf, x, ArenaY, radius)
    IN SortedSeq({g.entityMap[hit[2]] : hit \in {h \in hits : objs[g.entityMap[h[2]]].id # selfId}})

\* CONFIG.COLLISION_RADIUS * 2, in units of COLLISION_RADIUS
InteractionRadius == 2

\* the radius of the food query, CONFIG.COLLISION_RADIUS + CONFIG.FOOD_SIZE (4/3 units), rounded up
ConsumeQueryRadius == 2

\* dist < CONFIG.COLLISION_RADIUS + CONFIG.FOOD_SIZE, which is 4/3 of COLLISION_RADIUS
WithinConsumeDistance(x1, x2) == 9 * DistSq(x1, ArenaY, x2, ArenaY) < 16

\* the mutant of ConsumeLoop: the eaten food is not marked dead
RECURSIVE ConsumeLoopNoMark(_, _, _, _)
ConsumeLoopNoMark(s, o, nearby, i) ==
    IF i > Len(nearby) THEN s
    ELSE LET f == nearby[i]
         IN IF ~s.w.foodObj[f].isDead /\ WithinConsumeDistance(s.w.agentObj[o].x, s.w.foodObj[f].x)
            THEN ConsumeLoopNoMark(
                     [s EXCEPT !.w.agentObj[o] = gainEnergy(@, s.w.foodObj[f].energyValue),
                               !.removedFood = Append(@, f),
                               !.eaten = Append(@, [food |-> f, id |-> s.w.foodObj[f].id,
                                                    agent |-> o,
                                                    before |-> s.w.agentObj[o].energy,
                                                    value |-> s.w.foodObj[f].energyValue,
                                                    after |-> gainEnergy(s.w.agentObj[o], s.w.foodObj[f].energyValue).energy])],
                     o, nearby, i + 1)
            ELSE ConsumeLoopNoMark(s, o, nearby, i + 1)

\* the food loop of one agent: every live food within the consume distance is eaten
RECURSIVE ConsumeLoop(_, _, _, _)
ConsumeLoop(s, o, nearby, i) ==
    IF i > Len(nearby) THEN s
    ELSE LET f == nearby[i]
         IN IF ~s.w.foodObj[f].isDead /\ WithinConsumeDistance(s.w.agentObj[o].x, s.w.foodObj[f].x)
            THEN ConsumeLoop([s EXCEPT !.w.agentObj[o] = gainEnergy(@, s.w.foodObj[f].energyValue),
                                       !.w.foodObj[f].isDead = TRUE,
                                       !.removedFood = Append(@, f),
                                       !.eaten = Append(@, [food |-> f, id |-> s.w.foodObj[f].id,
                                                            agent |-> o,
                                                            before |-> s.w.agentObj[o].energy,
                                                            value |-> s.w.foodObj[f].energyValue,
                                                            after |-> gainEnergy(s.w.agentObj[o], s.w.foodObj[f].energyValue).energy])],
                             o, nearby, i + 1)
            ELSE ConsumeLoop(s, o, nearby, i + 1)

\* the agent-food loop of InteractionSystem.update
RECURSIVE AgentFoodLoop(_, _)
AgentFoodLoop(s, i) ==
    IF i > Len(s.w.agents) THEN s
    ELSE LET o == s.w.agents[i]
             a == s.w.agentObj[o]
         IN IF a.isDead THEN AgentFoodLoop(s, i + 1)
            ELSE AgentFoodLoop(
                     ConsumeLoop(s, o, queryNear(s.w.foodGrid, s.w.foodObj, a.id, a.x, ConsumeQueryRadius), 1),
                     i + 1)

\* the neighbour loop of one agent: every live neighbour that is not on cooldown and
\* is within the interaction distance is resolved against it
RECURSIVE NeighbourLoop(_, _, _, _)
NeighbourLoop(s, o, nearby, i) ==
    IF i > Len(nearby) THEN s
    ELSE LET other == nearby[i]
             a == s.w.agentObj[o]
             b == s.w.agentObj[other]
         IN IF b.isDead \/ b.id = a.id \/ isOnCooldown(a, b.id)
               \/ ~(DistSq(a.x, ArenaY, b.x, ArenaY) < InteractionRadius * InteractionRadius)
            THEN NeighbourLoop(s, o, nearby, i + 1)
            ELSE LET r == resolveAgentInteraction(a, b, s.rnd1, s.rnd2, s.now)
                 IN NeighbourLoop([s EXCEPT !.w.agentObj[o] = r.agent1,
                                            !.w.agentObj[other] = r.agent2,
                                            !.res = Append(@, r)],
                                  o, nearby, i + 1)

\* the agent-agent loop of InteractionSystem.update
RECURSIVE AgentAgentLoop(_, _)
AgentAgentLoop(s, i) ==
    IF i > Len(s.w.agents) THEN s
    ELSE LET o == s.w.agents[i]
             a == s.w.agentObj[o]
         IN IF a.isDead THEN AgentAgentLoop(s, i + 1)
            ELSE AgentAgentLoop(
                     NeighbourLoop(s, o, queryNear(s.w.agentGrid, s.w.agentObj, a.id, a.x, InteractionRadius), 1),
                     i + 1)

\* InteractionSystem.update(agents, food, agentGrid, foodGrid): rnd1 and rnd2 are the random
\* draws of the deciding agents, now is Date.now(); the result carries the removed food
\* and the record of every resolution
InteractionUpdate(w, rnd1, rnd2, now) ==
    LET w1 == [w EXCEPT !.agentGrid = UpdateGrid(@, w.agents, w.agentObj, 1),
                        !.foodGrid = UpdateGrid(@, w.food, w.foodObj, 1)]
        s0 == [w |-> w1, removedFood |-> << >>, eaten |-> << >>, res |-> << >>,
               rnd1 |-> rnd1, rnd2 |-> rnd2, now |-> now]
    IN AgentAgentLoop(AgentFoodLoop(s0, 1), 1)

\* the mutant of RemoveFromGrid: the entities stay in the grid
RemoveFromGridKept(g, list, objs, i) == g

\* World.update after the interaction system: the consumed food leaves the food grid
RECURSIVE RemoveFromGrid(_, _, _, _)
RemoveFromGrid(g, list, objs, i) ==
    IF i > Len(list) THEN g
    ELSE RemoveFromGrid(GridRemove(g, objs[list[i]].id), list, objs, i + 1)

(***************************************************************************)
(* EvolutionSystem and FoodSystem.  Their rules are those of the           *)
(* specification of the evolution system (section 4.4) and of the README:  *)
(* reproduction above 120 energy at a cost of 50 with a cooldown of 5 s,   *)
(* a child energy of 40% of the cost, death at 0 energy or at 180 s of     *)
(* age, and a population floor.                                            *)
(***************************************************************************)
REPRODUCTION_THRESHOLD == 120

REPRODUCTION_COST == 50

\* 5 s
REPRODUCTION_COOLDOWN == 3000

\* 40% of the reproduction cost
CHILD_ENERGY == (REPRODUCTION_COST * 4) \div 10

\* 180 s
MAX_AGE == 108000

LiveCount(w, list) == Cardinality({i \in 1..Len(list) : ~w.agentObj[list[i]].isDead})

shouldDie(a) == a.isDead \/ a.energy <= 0 \/ a.age >= MAX_AGE

canReproduce(e, a) ==
    /\ a.energy > REPRODUCTION_THRESHOLD
    /\ a.reproductionCooldown <= 0
    /\ LiveCount(e.st.w, e.st.w.agents) + Len(e.newAgents) < MaxAgentsCap

\* the mutant of reproduce: the parent pays only what the child receives
reproduceCheap(e, o, ch) ==
    LET a == e.st.w.agentObj[o]
        st1 == [e.st EXCEPT !.w.agentObj[o].energy = @ - CHILD_ENERGY,
                            !.w.agentObj[o].reproductionCooldown = REPRODUCTION_COOLDOWN]
        c == acquireAgent(st1, a.x, IF ch.mutate THEN ch.strategy ELSE a.strategyType,
                          <<IF ch.mutate THEN ch.traits ELSE a.traits>>, ch.traits, ch.dir)
    IN [e EXCEPT !.st = [w |-> [c.w EXCEPT !.agentObj[c.obj].energy = CHILD_ENERGY,
                                           !.stats.births = @ + 1,
                                           !.stats.totalBirths = @ + 1],
                         acq |-> c.acq, past |-> c.past],
                 !.newAgents = Append(@, c.obj)]

\* one reproduction: the parent pays, the child is drawn from the pool with the parent's
\* (or, on a mutation, ch's) strategy and traits and gets the child energy
reproduce(e, o, ch) ==
    LET a == e.st.w.agentObj[o]
        st1 == [e.st EXCEPT !.w.agentObj[o].energy = @ - REPRODUCTION_COST,
                            !.w.agentObj[o].reproductionCooldown = REPRODUCTION_COOLDOWN]
        c == acquireAgent(st1, a.x, IF ch.mutate THEN ch.strategy ELSE a.strategyType,
                          <<IF ch.mutate THEN ch.traits ELSE a.traits>>, ch.traits, ch.dir)
    IN [e EXCEPT !.st = [w |-> [c.w EXCEPT !.agentObj[c.obj].energy = CHILD_ENERGY,
                                           !.stats.births = @ + 1,
                                           !.stats.totalBirths = @ + 1],
                         acq |-> c.acq, past |-> c.past],
                 !.newAgents = Append(@, c.obj)]

\* the death and reproduction loop over the agents of the list
RECURSIVE LifecycleLoop(_, _, _)
LifecycleLoop(e, i, ch) ==
    IF i > Len(e.st.w.agents) THEN e
    ELSE LET o == e.st.w.agents[i]
             a == e.st.w.agentObj[o]
         IN IF shouldDie(a)
            THEN LifecycleLoop([e EXCEPT !.st.w.agentObj[o].isDead = TRUE,
                                         !.st.w.stats.deaths = @ + 1,
                                         !.st.w.stats.totalDeaths = @ + 1,
                                         !.deadAgents = Append(@, o)],
                               i + 1, ch)
            ELSE IF canReproduce(e, a) THEN LifecycleLoop(reproduce(e, o, ch), i + 1, ch)
            ELSE LifecycleLoop(e, i + 1, ch)

\* the population floor: new agents with random traits until the minimum is restored
RECURSIVE FloorLoop(_, _)
FloorLoop(e, ch) ==
    IF LiveCount(e.st.w, e.st.w.agents) + Len(e.newAgents) >= MinPopulation THEN e
    ELSE LET c == acquireAgent(e.st, ch.x, ch.strategy, << >>, ch.traits, ch.dir)
         IN FloorLoop([e EXCEPT !.st = [w |-> [c.w EXCEPT !.stats.births = @ + 1,
                                                          !.stats.totalBirths = @ + 1],
                                        acq |-> c.acq, past |-> c.past],
                               !.newAgents = Append(@, c.obj)],
                      ch)

\* evolutionSystem.update(agents): the new and the dead agents; ch holds the random
\* choices of the call (mutation, strategy, traits, position and direction of a spawn)
EvolutionUpdate(st, ch) ==
    LET e0 == [st |-> [st EXCEPT !.w.stats.births = 0, !.w.stats.deaths = 0],
               newAgents |-> << >>, deadAgents |-> << >>]
    IN FloorLoop(LifecycleLoop(e0, 1, ch), ch)

\* the mutant of AddNewAgents: the new agents are not added to the list
AddNewAgentsDropped(w, newAgents, i) == w

\* World.update after the evolution system: the new agents are pushed and inserted
RECURSIVE AddNewAgents(_, _, _)
AddNewAgents(w, newAgents, i) ==
    IF i > Len(newAgents) THEN w
    ELSE LET a == w.agentObj[newAgents[i]]
         IN AddNewAgents([w EXCEPT !.agents = Append(@, newAgents[i]),
                                   !.agentGrid = GridInsert(@, a.id, newAgents[i], a.x, ArenaY)],
                         newAgents, i + 1)

\* the evolution phase of World.update
EvolutionPhase(st, ch) ==
    LET e == EvolutionUpdate(st, ch)
        w1 == AddNewAgents(e.st.w, e.newAgents, 1)
        w2 == [w1 EXCEPT !.agentGrid = RemoveFromGrid(@, e.deadAgents, w1.agentObj, 1)]
    IN [e EXCEPT !.st.w = w2]

\* foodSystem.update(food, scaledDelta) and the push and insert of the new food:
\* the food system hands over count new items at position x
FoodPhase(w, count, x) ==
    IF count > 0 /\ Len(w.food) < MaxFood THEN spawnFood(w, x) ELSE w

\* the agent loop of cleanup() (the dead) or of init() (all): release to the pool
RECURSIVE ReleaseAgents(_, _, _, _)
ReleaseAgents(w, list, i, all) ==
    IF i > Len(list) THEN w
    ELSE LET o == list[i]
         IN IF (all \/ w.agentObj[o].isDead) /\ PoolAccepts(w.agentPool, w.agentPoolMax)
            THEN ReleaseAgents([w EXCEPT !.agentObj[o] = resetToPool(@),
                                         !.agentPool = Append(@, o)],
                               list, i + 1, all)
            ELSE ReleaseAgents(w, list, i + 1, all)

RECURSIVE ReleaseFood(_, _, _, _)
ReleaseFood(w, list, i, all) ==
    IF i > Len(list) THEN w
    ELSE LET o == list[i]
         IN IF (all \/ w.foodObj[o].isDead) /\ PoolAccepts(w.foodPool, w.foodPoolMax)
            THEN ReleaseFood([w EXCEPT !.foodObj[o] = foodResetToPool(@),
                                       !.foodPool = Append(@, o)],
                             list, i + 1, all)
            ELSE ReleaseFood(w, list, i + 1, all)

\* cleanup(): the dead go to the pools, the lists keep the living
cleanup(w) ==
    LET w1 == ReleaseFood(ReleaseAgents(w, w.agents, 1, FALSE), w.food, 1, FALSE)
    IN [w1 EXCEPT !.agents = SelectSeq(w.agents, LAMBDA o : ~w.agentObj[o].isDead),
                  !.food = SelectSeq(w.food, LAMBDA o : ~w.foodObj[o].isDead)]

\* the spawn loops of init()
RECURSIVE SpawnAgents(_, _, _)
SpawnAgents(st, cfgAgents, i) ==
    IF i > Len(cfgAgents) THEN st
    ELSE LET c == cfgAgents[i]
             a == spawnAgent(st, c.x, c.strategy, c.traits, c.dir)
         IN SpawnAgents([w |-> a.w, acq |-> a.acq, past |-> a.past], cfgAgents, i + 1)

RECURSIVE SpawnInitialFood(_, _, _)
SpawnInitialFood(w, cfgFood, i) ==
    IF i > Len(cfgFood) THEN w
    ELSE SpawnInitialFood(spawnFood(w, cfgFood[i]), cfgFood, i + 1)

\* the mutant of init: the grids are not cleared
initKeepGrids(st, cfg) ==
    LET w == st.w
        w1 == ReleaseFood(ReleaseAgents(w, w.agents, 1, TRUE), w.food, 1, TRUE)
        w2 == [w1 EXCEPT !.agents = << >>, !.food = << >>,
                         !.stats = [births |-> 0, deaths |-> 0, totalBirths |-> 0, totalDeaths |-> 0]]
        s3 == SpawnAgents([st EXCEPT !.w = w2], cfg.agents, 1)
    IN [s3 EXCEPT !.w = SpawnInitialFood(s3.w, cfg.food, 1)]

\* init(): everything goes back to the pools, lists, grids and statistics are cleared,
\* then the configured agents and food are spawned; cfg holds the random draws of the spawns
init(st, cfg) ==
    LET w == st.w
        w1 == ReleaseFood(ReleaseAgents(w, w.agents, 1, TRUE), w.food, 1, TRUE)
        w2 == [w1 EXCEPT !.agents = << >>, !.food = << >>,
                         !.agentGrid = GridClear(@), !.foodGrid = GridClear(@),
                         !.stats = [births |-> 0, deaths |-> 0, totalBirths |-> 0, totalDeaths |-> 0]]
        s3 == SpawnAgents([st EXCEPT !.w = w2], cfg.agents, 1)
    IN [s3 EXCEPT !.w = SpawnInitialFood(s3.w, cfg.food, 1)]

(***************************************************************************)
(* The World as a state machine.  A call of update runs as a sequence of   *)
(* steps, one per phase, with no other operation in between; the user      *)
(* interface calls (pause, time scale, step) come between two updates.     *)
(***************************************************************************)
MaxTicks == 2

\* the energy one tick's movement and metabolism cost an agent: a positive amount that
\* depends on its speed, age and stamina and on the scaled timestep; an agent whose energy
\* is below the cost of the tick leaves the movement phase with a negative energy
DrainCosts == {1, 3}

\* the values the user interface passes to the timeScale setter, in tenths
TimeScaleInputs == {0, 20}

\* the strategies drawn for the first and the second agent of the initial population
InitStrategies1 == {"Aggressive", "Cooperative", "Random"}

InitStrategies2 == {"Passive", "TitForTat", "Random"}

\* the energies of the agents of a world that has been running: near starvation, near the cap
RunEnergies == {2, 190}

\* the random draws of one evolution phase: no mutation and a timid random agent for the
\* floor, or a mutation to (and a floor spawn of) a bold hawk
EvolutionChoices ==
    {[mutate |-> FALSE, strategy |-> "Random", x |-> 1, dir |-> 1,
      traits |-> [speed |-> 8, vision |-> 10, aggression |-> 2, stamina |-> 10]],
     [mutate |-> TRUE, strategy |-> "Aggressive", x |-> 3, dir |-> -1,
      traits |-> [speed |-> 11, vision |-> 10, aggression |-> 8, stamina |-> 10]]}

\* the timeScale setter: Math.max(0.1, Math.min(5.0, value))
ClampTimeScale(value) == Max(1, Min(50, value))

\* the mutant of ScaledDelta: the time scale is not applied
ScaledDeltaUnscaled(delta, timeScale) == delta

\* delta * this._timeScale
ScaledDelta(delta, timeScale) == (delta * timeScale) \div 10

\* the mutant of UpdateSkips: update runs also while paused
UpdateSkipsNever(w) == FALSE

\* if (this._paused) return
UpdateSkips(w) == w.paused

\* the resize check of World.update
ResizeCheck(w, width) ==
    IF width # w.lastWorldWidth
    THEN [w EXCEPT !.agentGrid = GridResize(@, width, ArenaHeight,
                                     [o \in AgentObjs |-> [id |-> w.agentObj[o].id, x |-> w.agentObj[o].x, y |-> ArenaY]]),
                   !.foodGrid = GridResize(@, width, ArenaHeight,
                                     [o \in FoodObjs |-> [id |-> w.foodObj[o].id, x |-> w.foodObj[o].x, y |-> ArenaY]]),
                   !.lastWorldWidth = width]
    ELSE w

\* the mutant of NextPhase: the evolution system runs before the interaction system
NextPhaseSwapped(p) ==
    CASE p = "movement" -> "evolution"
      [] p = "evolution" -> "interaction"
      [] p = "interaction" -> "food"
      [] p = "food" -> "cleanup"
      [] OTHER -> "idle"

\* the phase World.update runs after phase p
NextPhase(p) ==
    CASE p = "movement" -> "interaction"
      [] p = "interaction" -> "evolution"
      [] p = "evolution" -> "food"
      [] p = "food" -> "cleanup"
      [] OTHER -> "idle"

\* the tags of a tick's events, consecutive equal tags merged
AddTag(log, n, tag) == IF n = 0 \/ (log # << >> /\ log[Len(log)] = tag) THEN log ELSE Append(log, tag)

\* the age of the agents of a running world: 10 s
RunAge == 6000

\* the reproduction cooldown left to an agent above the threshold: a tick and a half
RunCooldown == 15

\* the world a running simulation has reached: the initial spawn of cfg, with the ages and
\* the energies that drain, food and encounters have brought the agents to; an agent
\* above the reproduction threshold has reproduced and is still cooling down
WorldBuilt(cfg) ==
    LET st == init([w |-> WorldNew, acq |-> << >>, past |-> [o \in AgentObjs |-> {}]], cfg)
    IN [st EXCEPT !.w.agentObj =
           [o \in AgentObjs |->
               IF o <= Len(cfg.energies)
               THEN [@[o] EXCEPT !.energy = cfg.energies[o],
                                 !.age = RunAge,
                                 !.reproductionCooldown =
                                     IF cfg.energies[o] > REPRODUCTION_THRESHOLD THEN RunCooldown ELSE 0]
               ELSE @[o]]]

WorldStartAt(w, past) ==
    /\ world = w
    /\ pastIds = past
    /\ acquired = << >>
    /\ worldWidth = ArenaWidth
    /\ wpc = "idle"
    /\ wasPaused = << >>
    /\ scaledDelta = 0
    /\ tickNo = 0
    /\ tickArg = 0
    /\ tickLog = << >>
    /\ lastCall = "none"
    /\ stepEntry = [paused |-> FALSE, tickNo |-> 0]
    /\ lastEaten = << >>

WorldStart(cfg) == WorldStartAt(WorldBuilt(cfg).w, WorldBuilt(cfg).past)

\* the default world: a hawk near the energy cap beside a starving random agent
DefaultWorldCfg ==
    [agents |-> <<[strategy |-> "Aggressive", traits |-> DEFAULT_TRAITS, x |-> 1, dir |-> 1],
                  [strategy |-> "Random", traits |-> DEFAULT_TRAITS, x |-> 2, dir |-> -1]>>,
     food |-> <<1>>,
     energies |-> <<190, 2>>]

WorldCfgs ==
    {[agents |-> <<[strategy |-> s1, traits |-> DEFAULT_TRAITS, x |-> 1, dir |-> 1],
                   [strategy |-> s2, traits |-> CHOOSE t \in RandomTraitChoices : t.aggression > 6,
                    x |-> x2, dir |-> -1]>>,
      food |-> <<1>>,
      energies |-> <<e1, e2>>] :
        s1 \in InitStrategies1, s2 \in InitStrategies2,
        x2 \in {2, 4}, e1 \in RunEnergies, e2 \in RunEnergies}

\* worlds with three agents that the first movement phase brings together: the first of
\* the list then has both others within the interaction distance, and no food in reach
MeleeCfgs ==
    {[agents |-> <<[strategy |-> s1, traits |-> DEFAULT_TRAITS, x |-> 1, dir |-> 1],
                   [strategy |-> s2, traits |-> CHOOSE t \in RandomTraitChoices : t.aggression <= 6,
                    x |-> 2, dir |-> 1],
                   [strategy |-> s3, traits |-> CHOOSE t \in RandomTraitChoices : t.aggression > 6,
                    x |-> 4, dir |-> -1]>>,
      food |-> <<0>>,
      energies |-> <<e1, e2, e3>>] :
        s1 \in {"Passive", "Random"}, s2 \in {"Aggressive", "Passive"}, s3 \in {"Aggressive", "TitForTat"},
        e1 \in RunEnergies, e2 \in RunEnergies, e3 \in RunEnergies}

\* update(delta) up to the end of the movement phase; cost is the drain of this tick
BeginUpdate(w, delta, cost) ==
    /\ tickNo < MaxTicks
    /\ world' = MovementPhase(ResizeCheck(w, worldWidth), ScaledDelta(delta, w.timeScale), cost)
    /\ scaledDelta' = ScaledDelta(delta, w.timeScale)
    /\ tickNo' = tickNo + 1
    /\ tickArg' = delta
    /\ tickLog' = AddTag(<< >>, LiveCount(w, w.agents), "move")
    /\ wpc' = NextPhase("movement")
    /\ lastRes' = << >>
    /\ lastEaten' = << >>
    /\ UNCHANGED <<pastIds, acquired>>

\* World.update(delta), called by the game loop with the fixed timestep
UpdateCall(cost) ==
    /\ wpc = "idle"
    /\ lastCall' = "update"
    /\ IF UpdateSkips(world)
       THEN UNCHANGED <<world, scaledDelta, tickNo, tickArg, tickLog, wpc, lastRes, lastEaten, pastIds, acquired>>
       ELSE BeginUpdate(world, FixedStep, cost)
    /\ UNCHANGED <<worldWidth, wasPaused, stepEntry, worldFrame>>

\* World.step(): wasPaused saved, paused cleared, update(1 / 60) entered
StepCall(cost) ==
    /\ wpc = "idle"
    /\ lastCall' = "step"
    /\ wasPaused' = <<world.paused>>
    /\ stepEntry' = [paused |-> world.paused, tickNo |-> tickNo]
    /\ BeginUpdate([world EXCEPT !.paused = FALSE], FixedStep, cost)
    /\ UNCHANGED <<worldWidth, worldFrame>>

\* the interaction phase of World.update
InteractPhase(rnd1, rnd2) ==
    /\ wpc = "interaction"
    /\ LET s == InteractionUpdate(world, rnd1, rnd2, tickNo)
       IN /\ world' = [s.w EXCEPT !.foodGrid = RemoveFromGrid(@, s.removedFood, s.w.foodObj, 1)]
          /\ lastRes' = s.res
          /\ lastEaten' = s.eaten
          /\ tickLog' = AddTag(AddTag(tickLog, Len(s.removedFood), "consume"), Len(s.res), "resolve")
    /\ wpc' = NextPhase(wpc)
    /\ UNCHANGED <<pastIds, acquired, worldWidth, wasPaused, scaledDelta, tickNo, tickArg,
                   lastCall, stepEntry, worldFrame>>

\* the evolution phase of World.update
EvolvePhase(ch) ==
    /\ wpc = "evolution"
    /\ LET e == EvolutionPhase([w |-> world, acq |-> << >>, past |-> pastIds], ch)
       IN /\ world' = e.st.w
          /\ pastIds' = e.st.past
          /\ acquired' = e.st.acq
          /\ tickLog' = AddTag(AddTag(tickLog, Len(e.deadAgents), "death"), Len(e.newAgents), "birth")
    /\ wpc' = NextPhase(wpc)
    /\ UNCHANGED <<worldWidth, wasPaused, scaledDelta, tickNo, tickArg, lastCall, stepEntry,
                   lastRes, lastEaten, worldFrame>>

\* the food phase of World.update
FoodSpawnPhase(count, x) ==
    /\ wpc = "food"
    /\ world' = FoodPhase(world, count, x)
    /\ wpc' = NextPhase(wpc)
    /\ UNCHANGED <<pastIds, acquired, worldWidth, wasPaused, scaledDelta, tickNo, tickArg, tickLog,
                   lastCall, stepEntry, lastRes, lastEaten, worldFrame>>

\* cleanup() and the return of update; step() then restores the paused flag
CleanupPhase ==
    /\ wpc = "cleanup"
    /\ LET w1 == cleanup(world)
       IN /\ world' = IF wasPaused = << >> THEN w1 ELSE [w1 EXCEPT !.paused = wasPaused[1]]
          /\ tickLog' = AddTag(tickLog, (Len(w1.agentPool) - Len(world.agentPool))
                                        + (Len(w1.foodPool) - Len(world.foodPool)), "release")
    /\ wasPaused' = << >>
    /\ wpc' = NextPhase(wpc)
    /\ UNCHANGED <<pastIds, acquired, worldWidth, scaledDelta, tickNo, tickArg,
                   lastCall, stepEntry, lastRes, lastEaten, worldFrame>>

\* the paused setter
SetPaused(value) ==
    /\ wpc = "idle"
    /\ world' = [world EXCEPT !.paused = value]
    /\ lastCall' = "paused"
    /\ UNCHANGED <<pastIds, acquired, worldWidth, wasPaused, scaledDelta, tickNo, tickArg, tickLog,
                   wpc, stepEntry, lastRes, lastEaten, worldFrame>>

\* the timeScale setter
SetTimeScale(value) ==
    /\ wpc = "idle"
    /\ world' = [world EXCEPT !.timeScale = ClampTimeScale(value)]
    /\ lastCall' = "timeScale"
    /\ UNCHANGED <<pastIds, acquired, worldWidth, wasPaused, scaledDelta, tickNo, tickArg, tickLog,
                   wpc, stepEntry, lastRes, lastEaten, worldFrame>>

(***************************************************************************)
(* Two worlds from one seed.  The seeded generator of utils/RNG serves     *)
(* getRandomPosition and the spawn direction of resetForSpawn; the spawn   *)
(* strategy (pickRandomStrategy), the random traits (randomTraits) and the *)
(* draws of the Random and Cooperative strategies come from Math.random(), *)
(* which setSeed does not touch.  Seeded draws are a function of the seed  *)
(* and of the position in the stream, Math.random() draws are inputs of    *)
(* each world.                                                             *)
(***************************************************************************)
Seeds == {1, 2}

\* the Math.random() draws of the initial spawn, in twelfths
SpawnDraws == {0, 9}

MaxTwinTicks == 2

\* CONFIG.STRATEGY_SPAWN in percent, in the order of its keys
StrategyOrder == <<"Aggressive", "Passive", "Cooperative", "TitForTat", "Random">>

STRATEGY_SPAWN ==
    [Aggressive |-> 25, Passive |-> 25, Cooperative |-> 20, TitForTat |-> 20, Random |-> 10]

RatioTotal(ratios) ==
    ratios.Aggressive + ratios.Passive + ratios.Cooperative + ratios.TitForTat + ratios.Random

\* the sum of the first n ratios in key order
RECURSIVE RatioPrefix(_, _)
RatioPrefix(ratios, n) ==
    IF n = 0 THEN 0 ELSE RatioPrefix(ratios, n - 1) + ratios[StrategyOrder[n]]

\* pickRandomStrategy(ratios) with the Math.random() draw rnd (in twelfths): the first
\* key at which random = rnd / 12 * total, lowered by the ratios so far, is <= 0
pickRandomStrategy(ratios, rnd) ==
    LET hits == {n \in 1..Len(StrategyOrder) :
                    rnd * RatioTotal(ratios) - 12 * RatioPrefix(ratios, n) <= 0}
    IN IF hits = {} THEN "Random"
       ELSE StrategyOrder[CHOOSE n \in hits : \A m \in hits : n <= m]

\* the k-th draw of the generator seeded with seed, in twelfths
SeededDraw(seed, k) == (5 * seed + 7 * k) % 12

\* randomRange(margin, width - margin) on the k-th seeded draw
SeededPosition(seed, k) == 1 + (SeededDraw(seed, k) * (ArenaWidth - 2)) \div 12

\* the direction of the angle random() * 2 pi on the k-th seeded draw
SeededDirection(seed, k) == IF SeededDraw(seed, k) < 3 \/ SeededDraw(seed, k) >= 9 THEN 1 ELSE -1

\* the draws of init() for a world of two agents and one food item: positions and
\* directions from the seeded generator, strategies and traits from Math.random()
TwinCfg(seed, m1, m2, traits) ==
    [agents |-> <<[strategy |-> pickRandomStrategy(STRATEGY_SPAWN, m1), traits |-> traits,
                   x |-> SeededPosition(seed, 1), dir |-> SeededDirection(seed, 3)],
                  [strategy |-> pickRandomStrategy(STRATEGY_SPAWN, m2), traits |-> traits,
                   x |-> SeededPosition(seed, 5), dir |-> SeededDirection(seed, 7)]>>,
     food |-> <<SeededPosition(seed, 9)>>]

\* new World({ seed, agentCount: 2, foodCount: 1 })
TwinWorld(seed, m1, m2, traits) ==
    init([w |-> WorldNew, acq |-> << >>, past |-> [o \in AgentObjs |-> {}]],
         TwinCfg(seed, m1, m2, traits))

\* update(FixedStep) of a world that is not paused, phase by phase
TickMove(w, cost) ==
    MovementPhase(ResizeCheck(w, ArenaWidth), ScaledDelta(FixedStep, w.timeScale), cost)

TickInteract(w, rnd1, rnd2, now) ==
    LET s == InteractionUpdate(w, rnd1, rnd2, now)
    IN [s.w EXCEPT !.foodGrid = RemoveFromGrid(@, s.removedFood, s.w.foodObj, 1)]

TickEvolve(w, past, ch) == EvolutionPhase([w |-> w, acq |-> << >>, past |-> past], ch).st

TickEnd(st, count, x) == [st EXCEPT !.w = cleanup(FoodPhase(st.w, count, x))]

\* one whole update(FixedStep)
WorldTick(st, cost, rnd1, rnd2, now, ch, count) ==
    TickEnd(TickEvolve(TickInteract(TickMove(st.w, cost), rnd1, rnd2, now), st.past, ch), count, ch.x)

TwinInit ==
    /\ twinA = << >>
    /\ twinB = << >>
    /\ twinSeed = 0
    /\ twinTicks = 0

\* the worlds new World({ seed, ... }) can build: one for every outcome of the
\* Math.random() draws of the spawn
TwinWorlds(seed) ==
    {TwinWorld(seed, m1, m2, traits) : m1 \in SpawnDraws, m2 \in SpawnDraws, traits \in RandomTraitChoices}

\* both worlds are constructed with the same seed and configuration
TwinReset(seed, wa, wb) ==
    /\ twinA = << >>
    /\ twinA' = <<wa>>
    /\ twinB' = <<wb>>
    /\ twinSeed' = seed
    /\ twinTicks' = 0
    /\ UNCHANGED twinFrame

\* both worlds run one tick of the fixed timestep; the drain of the tick and the draws of
\* the evolution and food systems are the same in both, the Math.random() draws of the
\* strategies are those of each world
TwinTick(cost, rndA, rndB, ch, count) ==
    /\ twinA # << >>
    /\ twinTicks < MaxTwinTicks
    /\ twinA' = <<WorldTick(twinA[1], cost, rndA, rndA, twinTicks + 1, ch, count)>>
    /\ twinB' = <<WorldTick(twinB[1], cost, rndB, rndB, twinTicks + 1, ch, count)>>
    /\ twinTicks' = twinTicks + 1
    /\ UNCHANGED <<twinSeed, twinFrame>>

(***************************************************************************)
(* Controls: the reset button, the preset select and the configuration     *)
(* import.  A ratio record holds the five ratios as fractions n / d with   *)
(* one denominator d > 0.  Numbers of an imported record are in tenths.    *)
(* Of the world that init() builds, this component keeps the strategies of *)
(* the spawned agents and the number of food items asked for.              *)
(***************************************************************************)
\* the agent and food counts of the reset button (CONFIG.INITIAL_AGENT_COUNT and
\* CONFIG.INITIAL_FOOD_COUNT) and the counts init() derives from the area of the arena
ResetAgentCount == 2

ResetFoodCount == 1

MaxApplies == 1

\* the positions a user drags a ratio slider to
SliderValues == {0}

ZeroRatios == [Aggressive |-> 0, Passive |-> 0, Cooperative |-> 0, TitForTat |-> 0, Random |-> 0]

\* Math.round of a number given in units of 1 / unit
MathRound(v, unit) == FloorDiv(2 * v + unit, 2 * unit)

\* getStrategyRatios(): slider value / 100, divided by the total if the total is > 0
getStrategyRatios(sliders) ==
    IF RatioTotal(sliders) > 0 THEN [n |-> sliders, d |-> RatioTotal(sliders)]
    ELSE [n |-> sliders, d |-> 100]

\* updateRatioSliders(ratios): every slider is set to Math.round(ratio * 100)
updateRatioSliders(ratios) ==
    [k \in DOMAIN ratios.n |-> MathRound(100 * ratios.n[k], ratios.d)]

\* the strategy ratios of applyImportedConfig: ratiosIn is worldCfg.strategyRatios (in
\* tenths), empty when the record has none
ImportedRatios(ratiosIn, sliders) ==
    LET ratiosOut == IF ratiosIn = << >> THEN ZeroRatios
                     ELSE [k \in DOMAIN ZeroRatios |-> Max(0, ratiosIn[1][k])]
    IN IF RatioTotal(ratiosOut) > 0 THEN [n |-> ratiosOut, d |-> RatioTotal(ratiosOut)]
       ELSE getStrategyRatios(sliders)

\* resolveCount of init(): the explicit count, or the count computed from the area
resolveCount(explicitCount, computed, fallback) ==
    IF explicitCount # << >> THEN explicitCount[1]
    ELSE IF computed > 0 THEN computed ELSE fallback

\* this.config.strategyRatios || CONFIG.STRATEGY_SPAWN
SpawnRatios(config) ==
    IF config.strategyRatios = << >> THEN [n |-> STRATEGY_SPAWN, d |-> 100]
    ELSE config.strategyRatios[1]

\* the spawn loop of init(): one pickRandomStrategy per agent, draws[i] its Math.random()
InitStrategies(config, draws) ==
    LET agentCount == resolveCount(config.agentCount, ResetAgentCount, ResetAgentCount)
    IN [i \in 1..Min(agentCount, Len(draws)) |-> pickRandomStrategy(SpawnRatios(config).n, draws[i])]

InitFood(config) == resolveCount(config.foodCount, ResetFoodCount, ResetFoodCount)

\* the draws of one init()
SpawnDrawSeqs == [1..ResetAgentCount -> SpawnDraws]

\* the presets of the preset select
Presets ==
    {[agentCount |-> 2, foodCount |-> 1, foodValue |-> << >>, mutationChance |-> << >>,
      strategyRatios |-> [n |-> STRATEGY_SPAWN, d |-> 100]],
     [agentCount |-> 1, foodCount |-> 1, foodValue |-> <<30>>, mutationChance |-> <<2>>,
      strategyRatios |-> [n |-> [ZeroRatios EXCEPT !.Aggressive = 1, !.Passive = 1], d |-> 2]]}

\* imported records: none of the numbers present, all of them negative, all of them
\* positive and large; each with no ratios, ratios of 0, ratios with a negative entry
\* and ratios that sum to more than 1
ImportNumbers ==
    {[agentCount |-> << >>, foodCount |-> << >>, maxAgents |-> << >>, mutationChance |-> << >>,
      fightCost |-> << >>, foodValue |-> << >>],
     [agentCount |-> <<-15>>, foodCount |-> <<-15>>, maxAgents |-> <<-34>>, mutationChance |-> <<-5>>,
      fightCost |-> <<-26>>, foodValue |-> <<-15>>],
     [agentCount |-> <<16>>, foodCount |-> <<14>>, maxAgents |-> <<1000>>, mutationChance |-> <<15>>,
      fightCost |-> <<125>>, foodValue |-> <<304>>]}

ImportRatios ==
    {<< >>, <<ZeroRatios>>,
     <<[ZeroRatios EXCEPT !.Aggressive = -5, !.Passive = -5]>>,
     <<[ZeroRatios EXCEPT !.Aggressive = -5, !.Cooperative = 10, !.Random = 30]>>}

ControlsInit ==
    /\ ratioSliders = STRATEGY_SPAWN
    /\ worldConfig = [agentCount |-> << >>, foodCount |-> << >>, strategyRatios |-> << >>]
    /\ runtimeCfg = [FIGHT_COST |-> FIGHT_COST, FOOD_VALUE |-> FOOD_VALUE,
                     MAX_AGENTS |-> 100, MUTATION_CHANCE |-> 1]
    /\ spawnedAs = << >>
    /\ spawnedFood = 0
    /\ lastApply = "none"
    /\ applyCount = 0

\* the input event of a ratio slider
SetSlider(strategy, value) ==
    /\ ratioSliders' = [ratioSliders EXCEPT ![strategy] = value]
    /\ UNCHANGED <<worldConfig, runtimeCfg, spawnedAs, spawnedFood, lastApply, applyCount, ctlFrame>>

\* the click handler of the reset button: world.reset with the ratios of the sliders
ResetClick(draws) ==
    /\ applyCount < MaxApplies
    /\ worldConfig' = [agentCount |-> <<ResetAgentCount>>, foodCount |-> <<ResetFoodCount>>,
                       strategyRatios |-> <<getStrategyRatios(ratioSliders)>>]
    /\ spawnedAs' = InitStrategies(worldConfig', draws)
    /\ spawnedFood' = InitFood(worldConfig')
    /\ lastApply' = "reset"
    /\ applyCount' = applyCount + 1
    /\ UNCHANGED <<ratioSliders, runtimeCfg, ctlFrame>>

\* the change handler of the preset select: world.loadPreset(preset), then the sliders
PresetChange(preset, draws) ==
    /\ applyCount < MaxApplies
    /\ runtimeCfg' = [runtimeCfg EXCEPT
                         !.FOOD_VALUE = IF preset.foodValue # << >> THEN preset.foodValue[1] ELSE @,
                         !.MUTATION_CHANCE = IF preset.mutationChance # << >> THEN preset.mutationChance[1] ELSE @]
    /\ worldConfig' = [agentCount |-> <<preset.agentCount>>, foodCount |-> <<preset.foodCount>>,
                       strategyRatios |-> <<preset.strategyRatios>>]
    /\ spawnedAs' = InitStrategies(worldConfig', draws)
    /\ spawnedFood' = InitFood(worldConfig')
    /\ ratioSliders' = updateRatioSliders(preset.strategyRatios)
    /\ lastApply' = "preset"
    /\ applyCount' = applyCount + 1
    /\ UNCHANGED ctlFrame

\* applyImportedConfig(raw) for a record of version 1
ImportApply(numbers, ratiosIn, draws) ==
    /\ applyCount < MaxApplies
    /\ runtimeCfg' = [runtimeCfg EXCEPT
                         !.MAX_AGENTS = IF numbers.maxAgents # << >> THEN MathRound(numbers.maxAgents[1], 10) ELSE @,
                         !.MUTATION_CHANCE = IF numbers.mutationChance # << >> THEN numbers.mutationChance[1] ELSE @,
                         !.FIGHT_COST = IF numbers.fightCost # << >>
                                        THEN Max(0, MathRound(numbers.fightCost[1], 10)) ELSE @,
                         !.FOOD_VALUE = IF numbers.foodValue # << >>
                                        THEN Max(0, MathRound(numbers.foodValue[1], 10)) ELSE @]
    /\ worldConfig' = [agentCount |-> IF numbers.agentCount # << >>
                                      THEN <<MathRound(numbers.agentCount[1], 10)>> ELSE << >>,
                       foodCount |-> IF numbers.foodCount # << >>
                                     THEN <<MathRound(numbers.foodCount[1], 10)>> ELSE << >>,
                       strategyRatios |-> <<ImportedRatios(ratiosIn, ratioSliders)>>]
    /\ spawnedAs' = InitStrategies(worldConfig', draws)
    /\ spawnedFood' = InitFood(worldConfig')
    /\ ratioSliders' = updateRatioSliders(ImportedRatios(ratiosIn, ratioSliders))
    /\ lastApply' = "import"
    /\ applyCount' = applyCount + 1

\* applyImportedConfig(raw) for a record it accepts, called on its own
ImportConfig(numbers, ratiosIn, draws) ==
    /\ ImportApply(numbers, ratiosIn, draws)
    /\ UNCHANGED ctlFrame

(***************************************************************************)
(* The click handler of the paste button: the text of the clipboard or the *)
(* textarea, JSON.parse and applyImportedConfig inside one try block, and  *)
(* the status line.  A pasted text is empty, malformed, or the JSON of a   *)
(* value of some type; an object may carry a version and a seed.           *)
(***************************************************************************)
ImportVersions ==
    {<< >>, <<[type |-> "number", value |-> 1]>>, <<[type |-> "number", value |-> 2]>>,
     <<[type |-> "string", value |-> 1]>>}

ImportSeeds == {<< >>, <<2>>}

PastedTexts ==
    {[text |-> t, type |-> "none", version |-> << >>, seed |-> << >>] : t \in {"empty", "malformed"}}
    \cup {[text |-> "json", type |-> t, version |-> << >>, seed |-> << >>] :
              t \in {"null", "number", "string", "boolean", "array"}}
    \cup {[text |-> "json", type |-> "object", version |-> v, seed |-> sd] :
              v \in ImportVersions, sd \in ImportSeeds}

\* typeof raw
TypeOf(raw) == IF raw.type \in {"null", "array", "object"} THEN "object" ELSE raw.type

\* the mutant of ImportThrows: no version check
ImportThrowsNonObjects(raw) == raw.type = "null" \/ TypeOf(raw) # "object"

\* the two throw statements at the head of applyImportedConfig: !raw or not of type
\* object, and (raw.version ?? 1) !== 1
ImportThrows(raw) ==
    \/ raw.type = "null" \/ TypeOf(raw) # "object"
    \/ (IF raw.version = << >> THEN [type |-> "number", value |-> 1] ELSE raw.version[1])
           # [type |-> "number", value |-> 1]

\* what the panel and the world hold, as an import can change it
PanelState == <<ratioSliders, worldConfig, runtimeCfg, spawnedAs, spawnedFood, lastApply, applyCount, rngSeed>>

PasteInit ==
    /\ rngSeed = 1
    /\ configStatus = ""
    /\ pasteLog = << >>

\* the click handler of the paste button
PasteClick(raw, numbers, ratiosIn, draws) ==
    /\ IF raw.text = "empty"
       THEN /\ configStatus' = "No config found (clipboard/textarea empty)."
            /\ pasteLog' = <<[record |-> raw, before |-> PanelState, after |-> PanelState, ended |-> "empty"]>>
            /\ UNCHANGED <<ctlVars, rngSeed>>
       ELSE IF raw.text = "malformed" \/ ImportThrows(raw)
       THEN /\ configStatus' = "Invalid config JSON."
            /\ pasteLog' = <<[record |-> raw, before |-> PanelState, after |-> PanelState, ended |-> "caught"]>>
            /\ UNCHANGED <<ctlVars, rngSeed>>
       ELSE /\ ImportApply(numbers, ratiosIn, draws)
            /\ rngSeed' = IF raw.seed # << >> THEN raw.seed[1] ELSE rngSeed
            /\ configStatus' = "Config applied."
            /\ pasteLog' = <<[record |-> raw, before |-> PanelState, after |-> PanelState', ended |-> "applied"]>>
    /\ UNCHANGED ctlPasteFrame

\* the timeout of setStatus clears the status line
StatusTimeout ==
    /\ configStatus # ""
    /\ configStatus' = ""
    /\ UNCHANGED <<rngSeed, pasteLog, importFrame>>

(***************************************************************************)
(* A pair of neighbours over many ticks: two agents that stay within the   *)
(* interaction distance of each other, followed for more than one          *)
(* interaction cooldown.                                                   *)
(***************************************************************************)
MaxPairTicks == 62

PairStrategies == {"Passive", "Cooperative", "TitForTat", "Aggressive"}

\* what one side of a resolution decided, and what it knew of the other side
PairDecision(self, entry, otherId, action) ==
    [strategyType |-> self.strategyType, action |-> action, energy |-> entry.energy,
     remembered |-> [i \in 1..Cardinality({j \in 1..Len(entry.encounterMemory) :
                                              entry.encounterMemory[j].agentId = otherId}) |->
                        entry.encounterMemory[CHOOSE j \in 1..Len(entry.encounterMemory) :
                            entry.encounterMemory[j].agentId = otherId].lastAction]]

\* the time scales of the run, in tenths
PairTimeScales == {10, 20}

\* the drain of a tick of this run
PairCosts == {1}

PairCfg(s1, s2) ==
    [agents |-> <<[strategy |-> s1, traits |-> CHOOSE t \in RandomTraitChoices : t.aggression <= 6,
                   x |-> 1, dir |-> 1],
                  [strategy |-> s2, traits |-> CHOOSE t \in RandomTraitChoices : t.aggression <= 6,
                   x |-> 2, dir |-> 1]>>,
     food |-> <<3>>]

\* new World({ agentCount: 2, foodCount: 1 }) with the time scale set
PairWorld(s1, s2, timeScale) ==
    LET st == init([w |-> WorldNew, acq |-> << >>, past |-> [o \in AgentObjs |-> {}]], PairCfg(s1, s2))
    IN [st EXCEPT !.w.timeScale = ClampTimeScale(timeScale)]

\* update(FixedStep) up to the return of the interaction system
PairInteraction(st, cost, rnd, now) == InteractionUpdate(TickMove(st.w, cost), rnd, rnd, now)

\* the rest of update(FixedStep)
PairAfter(s, past, ch) ==
    TickEnd(TickEvolve([s.w EXCEPT !.foodGrid = RemoveFromGrid(@, s.removedFood, s.w.foodObj, 1)],
                       past, ch), 0, ch.x)

PairRecords(res, tick) ==
    [i \in 1..Len(res) |->
        [tick |-> tick, ids |-> {res[i].agent1.id, res[i].agent2.id},
         onCooldown |-> res[i].entry[1].onCooldown \/ res[i].entry[2].onCooldown,
         decisions |-> <<PairDecision(res[i].agent1, res[i].entry[1], res[i].agent2.id, res[i].action1),
                         PairDecision(res[i].agent2, res[i].entry[2], res[i].agent1.id, res[i].action2)>>]]

PairInit ==
    /\ pairSt = << >>
    /\ pairTick = 0
    /\ pairLog = << >>

PairStart(s1, s2, timeScale) ==
    /\ pairSt = << >>
    /\ pairSt' = <<PairWorld(s1, s2, timeScale)>>
    /\ UNCHANGED <<pairTick, pairLog, pairFrame>>

\* one update(FixedStep) of the world
PairTick(cost, rnd, ch) ==
    /\ pairSt # << >>
    /\ pairTick < MaxPairTicks
    /\ pairLog' = pairLog \o PairRecords(PairInteraction(pairSt[1], cost, rnd, pairTick + 1).res, pairTick + 1)
    /\ pairSt' = <<PairAfter(PairInteraction(pairSt[1], cost, rnd, pairTick + 1), pairSt[1].past, ch)>>
    /\ pairTick' = pairTick + 1
    /\ UNCHANGED pairFrame

(***************************************************************************)
(* The encounter memory of one agent under a sequence of rememberEncounter *)
(* calls.  Ids are opaque UUIDs, so a new opponent takes the smallest id   *)
(* not used so far.                                                        *)
(***************************************************************************)
MaxRemembers == 6

\* Date.now() advances by whole milliseconds between two calls, or not at all
ClockSteps == {0, 1}

\* the action of the opponent a call records
RememberedActions == {"FIGHT"}

MemoryIds(mem) == {mem[i].agentId : i \in 1..Len(mem)}

\* the opponents a call can name: one met before, or the next new one
Opponents == 1..Min(memCalls + 1, DEFAULT_MEMORY_SIZE + 1)

MemoryInit ==
    /\ memAgent = AgentNew
    /\ memClock = 0
    /\ memCalls = 0
    /\ memLast = << >>

\* agent.rememberEncounter(otherId, action, outcome) at Date.now() = memClock + dt
Remember(otherId, action, dt) ==
    /\ memCalls < MaxRemembers
    /\ memAgent' = rememberEncounter(memAgent, otherId, action, "tie", memClock + dt)
    /\ memClock' = memClock + dt
    /\ memCalls' = memCalls + 1
    /\ memLast' = <<[before |-> memAgent.encounterMemory, agentId |-> otherId,
                     after |-> memAgent'.encounterMemory]>>
    /\ UNCHANGED memFrame

(***************************************************************************)
(* World.reset(config).  The agent pool of this part holds at most         *)
(* ScaledAgentPool objects: the 300 of AGENT_POOL_MAX scaled to the        *)
(* populations of the model, so that a world can hold more agents than     *)
(* the pool takes back.                                                    *)
(***************************************************************************)
ScaledAgentPool == 2

MaxResets == 1

ResetSpawns ==
    <<[strategy |-> "Aggressive", traits |-> DEFAULT_TRAITS, x |-> 1, dir |-> 1],
      [strategy |-> "Passive", traits |-> DEFAULT_TRAITS, x |-> 2, dir |-> -1],
      [strategy |-> "TitForTat", traits |-> DEFAULT_TRAITS, x |-> 3, dir |-> 1]>>

\* the configurations passed to reset, with the draws of the spawns: agentCount agents
\* and foodCount food
ResetConfigs ==
    {[agents |-> SubSeq(ResetSpawns, 1, agentCount), food |-> [i \in 1..foodCount |-> i]] :
        agentCount \in {1, MaxAgentsCap}, foodCount \in {0, MaxFood}}

\* the release loops of init()
ReleaseAll(w) == ReleaseFood(ReleaseAgents(w, w.agents, 1, TRUE), w.food, 1, TRUE)

\* the objects the spawn loops of init() construct stay within the objects of the model
ResetFits(w, cfg) ==
    /\ w.agentMade + Max(0, Len(cfg.agents) - Len(ReleaseAll(w).agentPool)) <= Cardinality(AgentObjs)
    /\ w.foodMade + Max(0, Len(cfg.food) - Len(ReleaseAll(w).foodPool)) <= Cardinality(FoodObjs)

ResetInit == resetLog = << >>

\* the world of a running simulation, with the scaled agent pool
ResetStart ==
    WorldStartAt([WorldBuilt(DefaultWorldCfg).w EXCEPT !.agentPoolMax = ScaledAgentPool],
                 WorldBuilt(DefaultWorldCfg).past)

\* reset(config): unpaused, time scale 1, init()
ResetCall(cfg) ==
    /\ wpc = "idle"
    /\ Len(resetLog) < MaxResets
    /\ ResetFits(world, cfg)
    /\ world' = init([w |-> [world EXCEPT !.paused = FALSE, !.timeScale = 10],
                      acq |-> << >>, past |-> pastIds], cfg).w
    /\ pastIds' = init([w |-> world, acq |-> << >>, past |-> pastIds], cfg).past
    /\ resetLog' = Append(resetLog, [before |-> world, released |-> ReleaseAll(world), config |-> cfg])
    /\ lastCall' = "reset"
    /\ UNCHANGED <<wpc, acquired, worldWidth, wasPaused, scaledDelta, tickNo, tickArg, tickLog,
                   stepEntry, lastRes, lastEaten, worldResetFrame>>

(***************************************************************************)
(* One agent at the edge of a world in bounce mode, in pixels: the         *)
(* boundary steering and the hard clamp of MovementSystem.boundaries, the  *)
(* integration of updatePhysics and the knockback of a fight, along one    *)
(* axis.  Positions are in 1/1800 px and speeds in 1/3 px/s, so that a     *)
(* tick of ts tenths (ts/600 s) moves an agent of speed v by v * ts.       *)
(***************************************************************************)
BounceWidthPx == 100

MaxBounceTicks == 4

BOUNDARY_MARGIN == 20

MAX_FORCE == 200

\* FRICTION, in hundredths
FRICTION == 98

\* the inset of the hard clamp, in px
ClampInset == 5

Px(n) == n * 1800

PxPerSecond(n) == n * 3

\* division rounding towards zero
TruncDiv(a, b) == IF a >= 0 THEN a \div b ELSE -((-a) \div b)

\* the speed traits, the spawn positions in px and the time scales of the run
BounceSpeeds == {10, 12}

BounceSpawnsPx == {BOUNDARY_MARGIN, BounceWidthPx - BOUNDARY_MARGIN}

BounceScales == {10, 20, 50}

\* the sum of the separation, flee, seek and wander forces of a tick, in px/s^2
SteeringForces == {-MAX_FORCE, 0, MAX_FORCE}

\* boundaries(agent) in bounce mode: the steering force inside the margin and the hard clamp
boundariesPx(a) ==
    LET desired == IF a.x < Px(BOUNDARY_MARGIN) THEN <<a.maxSpeed>>
                   ELSE IF a.x > Px(BounceWidthPx) - Px(BOUNDARY_MARGIN) THEN <<-a.maxSpeed>>
                   ELSE << >>
        steer == IF desired = << >> THEN 0
                 ELSE Limit(PxPerSecond(desired[1]) - a.velocity, PxPerSecond(MAX_FORCE * 2))
    IN [a EXCEPT !.acceleration = @ + steer,
                 !.x = Max(Px(ClampInset), Min(Px(BounceWidthPx) - Px(ClampInset), a.x))]

\* updatePhysics(delta), delta in 1/600 s: acceleration limit, velocity, friction, speed
\* limit, position
updatePhysicsPx(a, delta) ==
    LET acc == Limit(a.acceleration, PxPerSecond(MAX_FORCE))
        v == Limit(TruncDiv((a.velocity + TruncDiv(acc * delta, 600)) * FRICTION, 100),
                   PxPerSecond(a.maxSpeed))
    IN [a EXCEPT !.velocity = v, !.x = a.x + v * delta, !.acceleration = 0]

BounceInit ==
    /\ bounceAgent = << >>
    /\ bounceScale = 10
    /\ bounceTicks = 0
    /\ bounceKnocked = FALSE

\* spawnAgent at a position inside the margins, with the spawn velocity of resetForSpawn,
\* in a world whose time scale was set to timeScale
BounceSpawn(x, dir, speed, timeScale) ==
    /\ bounceAgent = << >>
    /\ bounceAgent' = <<[x |-> Px(x), velocity |-> PxPerSecond(dir * ((DEFAULT_SPEED * speed) \div 10)),
                         acceleration |-> 0, maxSpeed |-> (MAX_SPEED * speed) \div 10]>>
    /\ bounceScale' = ClampTimeScale(timeScale)
    /\ UNCHANGED <<bounceTicks, bounceKnocked, bounceFrame>>

\* the movement phase of one update for this agent: the steering forces, boundaries,
\* then updatePhysics with the scaled timestep
BounceTick(force) ==
    /\ bounceAgent # << >>
    /\ bounceTicks < MaxBounceTicks
    /\ bounceAgent' = <<updatePhysicsPx(boundariesPx([bounceAgent[1] EXCEPT !.acceleration = PxPerSecond(force)]),
                                        ScaledDelta(FixedStep, bounceScale))>>
    /\ bounceTicks' = bounceTicks + 1
    /\ bounceKnocked' = FALSE
    /\ UNCHANGED <<bounceScale, bounceFrame>>

\* the interaction phase of the update: a fight knocks the agent along dir
BounceKnock(dir) ==
    /\ bounceAgent # << >>
    /\ bounceTicks > 0
    /\ ~bounceKnocked
    /\ bounceAgent' = <<[bounceAgent[1] EXCEPT !.velocity = @ + PxPerSecond(dir * KNOCKBACK_FORCE)]>>
    /\ bounceKnocked' = TRUE
    /\ UNCHANGED <<bounceScale, bounceTicks, bounceFrame>>

(***************************************************************************)
(* GameLoop with start() and stop() called at any point: between two       *)
(* frames, from inside updateFn and from inside renderFn.  The frame       *)
(* callbacks requested from the browser are kept by id.                    *)
(***************************************************************************)
MaxRafRequests == 4

\* wall-clock time between two frame callbacks of this part: one or two timesteps
RafDeltas == {timeStep, 2 * timeStep}

\* where start() and stop() can be called: between frames, by the updateFn call that has
\* just run, by renderFn
InCallback == loopPc = "render" \/ (loopPc = "while" /\ updateCount > 0)

RafInit ==
    /\ loopId = 0
    /\ rafQueue = {}
    /\ nextRaf = 1
    /\ stopReturned = FALSE
    /\ lateUpdate = FALSE

\* start() at any point
StartAnywhere ==
    /\ loopPc = "idle" \/ InCallback
    /\ nextRaf <= MaxRafRequests
    /\ IF ~isRunning
       THEN /\ isRunning' = TRUE
            /\ loopId' = nextRaf
            /\ rafQueue' = rafQueue \cup {nextRaf}
            /\ nextRaf' = nextRaf + 1
       ELSE UNCHANGED <<isRunning, loopId, rafQueue, nextRaf>>
    /\ rafPending' = (rafQueue' # {})
    /\ stopReturned' = FALSE
    /\ UNCHANGED <<accumulator, updateCount, loopPc, updCalls, loopDropped, lateUpdate, loopRafFrame>>

\* stop() at any point: cancelAnimationFrame(loopId) drops the callback with that id, if
\* it is still pending
StopAnywhere ==
    /\ loopPc = "idle" \/ InCallback
    /\ isRunning' = FALSE
    /\ rafQueue' = rafQueue \ {loopId}
    /\ rafPending' = (rafQueue' # {})
    /\ stopReturned' = TRUE
    /\ UNCHANGED <<accumulator, updateCount, loopPc, updCalls, loopDropped, loopId, nextRaf,
                   lateUpdate, loopRafFrame>>

\* the browser runs the pending callback id: loop(currentTime) up to the while loop
RafFrameBegin(id, deltaTime) ==
    /\ loopPc = "idle"
    /\ id \in rafQueue
    /\ rafQueue' = rafQueue \ {id}
    /\ rafPending' = (rafQueue' # {})
    /\ IF ~isRunning
       THEN UNCHANGED <<accumulator, updateCount, loopPc, updCalls, loopDropped>>
       ELSE /\ accumulator' = accumulator + Min(deltaTime, SafeDeltaCap)
            /\ updateCount' = 0
            /\ updCalls' = << >>
            /\ loopDropped' = 0
            /\ loopPc' = "while"
    /\ UNCHANGED <<isRunning, loopId, nextRaf, stopReturned, lateUpdate, loopRafFrame>>

\* one iteration of the while loop: updateFn(timeStep)
RafFrameUpdate ==
    /\ loopPc = "while"
    /\ LoopContinues(accumulator, updateCount)
    /\ updCalls' = Append(updCalls, timeStep)
    /\ accumulator' = accumulator - timeStep
    /\ updateCount' = updateCount + 1
    /\ lateUpdate' = (lateUpdate \/ stopReturned)
    /\ UNCHANGED <<isRunning, rafPending, loopPc, loopDropped, loopId, rafQueue, nextRaf,
                   stopReturned, loopRafFrame>>

\* the end of the while loop, the accumulator reset and the call of renderFn
RafRender ==
    /\ loopPc = "while"
    /\ ~LoopContinues(accumulator, updateCount)
    /\ accumulator' = AccAfterLoop(accumulator, updateCount)
    /\ loopDropped' = accumulator - accumulator'
    /\ loopPc' = "render"
    /\ UNCHANGED <<isRunning, rafPending, updateCount, updCalls, rafVars, loopRafFrame>>

\* the last statement of loop: this.loopId = requestAnimationFrame(...)
RafFrameEnd ==
    /\ loopPc = "render"
    /\ nextRaf <= MaxRafRequests
    /\ loopId' = nextRaf
    /\ rafQueue' = rafQueue \cup {nextRaf}
    /\ nextRaf' = nextRaf + 1
    /\ rafPending' = TRUE
    /\ loopPc' = "idle"
    /\ UNCHANGED <<isRunning, accumulator, updateCount, updCalls, loopDropped, stopReturned,
                   lateUpdate, loopRafFrame>>

(***************************************************************************)
(* SpatialGridOptimized: every cell is an array, entityCells maps an id to *)
(* the index of the cell the entity was last put into.  The grid has the   *)
(* largest width and height of the grid model.                             *)
(***************************************************************************)
MaxCellLen == 3

optCols == CeilDiv(MaxGridW, GridCellSize)

optRows == CeilDiv(MaxGridH, GridCellSize)

\* the constructor: every cell allocated and empty
optNew == [cells |-> [i \in 0..(optCols * optRows - 1) |-> << >>], entityCells |-> << >>, entityMap |-> {}]

\* getCellIndex(x, y)
getCellIndex(x, y) ==
    FloorDiv(Max(0, Min(y, MaxGridH - 1)), GridCellSize) * optCols
        + FloorDiv(Max(0, Min(x, MaxGridW - 1)), GridCellSize)

\* cell.indexOf(entity), counted from 1; 0 when absent
IndexOf(cell, id) ==
    IF id \in SeqRange(cell) THEN CHOOSE i \in 1..Len(cell) : cell[i] = id /\ \A j \in 1..(i - 1) : cell[j] # id
    ELSE 0

\* the swap with the last element and the pop, of insert and of remove
SwapPop(cell, id) ==
    LET idx == IndexOf(cell, id)
        last == Len(cell)
    IN IF idx = 0 THEN cell
       ELSE SubSeq(IF idx # last THEN [cell EXCEPT ![idx] = cell[last]] ELSE cell, 1, last - 1)

\* insert(entity), for the entity id at position (x, y)
optInsert(g, id, x, y) ==
    LET index == getCellIndex(x, y)
        c1 == IF id \in DOMAIN g.entityCells /\ g.entityCells[id] # index
              THEN [g.cells EXCEPT ![g.entityCells[id]] = SwapPop(@, id)]
              ELSE g.cells
    IN [cells |-> [c1 EXCEPT ![index] = Append(@, id)],
        entityCells |-> MapPut(g.entityCells, id, index),
        entityMap |-> g.entityMap \cup {id}]

\* remove(entity)
optRemove(g, id) ==
    [cells |-> IF id \in DOMAIN g.entityCells
               THEN [g.cells EXCEPT ![g.entityCells[id]] = SwapPop(@, id)]
               ELSE g.cells,
     entityCells |-> MapDel(g.entityCells, id),
     entityMap |-> g.entityMap \ {id}]

\* update(entity): insert when the cell changed
optUpdate(g, id, x, y) ==
    IF id \notin DOMAIN g.entityCells \/ g.entityCells[id] # getCellIndex(x, y)
    THEN optInsert(g, id, x, y)
    ELSE g

\* the cells the two loops of a query visit, in the order they visit them
QueryCells(px, py, radius) ==
    LET cellRadius == CeilDiv(radius, GridCellSize)
        minCol == Max(0, FloorDiv(px, GridCellSize) - cellRadius)
        maxCol == Min(optCols - 1, FloorDiv(px, GridCellSize) + cellRadius)
        minRow == Max(0, FloorDiv(py, GridCellSize) - cellRadius)
        maxRow == Min(optRows - 1, FloorDiv(py, GridCellSize) + cellRadius)
        nc == Max(0, maxCol - minCol + 1)
        nr == Max(0, maxRow - minRow + 1)
    IN [k \in 1..(nr * nc) |-> (minRow + ((k - 1) \div nc)) * optCols + minCol + ((k - 1) % nc)]

RECURSIVE QueryHits(_, _, _, _, _, _, _, _)
\* the results array after the cells idxs[from..]: every stored entry within the radius
\* and other than skip is pushed
QueryHits(g, posf, idxs, from, px, py, radius, skip) ==
    IF from > Len(idxs) THEN << >>
    ELSE SelectSeq(g.cells[idxs[from]],
                   LAMBDA id : id # skip /\ DistSq(px, py, posf[id][1], posf[id][2]) <= radius * radius)
         \o QueryHits(g, posf, idxs, from + 1, px, py, radius, skip)

\* queryRadius(position, radius)
optQueryRadius(g, posf, px, py, radius) ==
    QueryHits(g, posf, QueryCells(px, py, radius), 1, px, py, radius, "")

\* queryNear(entity, radius)
optQueryNear(g, posf, id, radius) ==
    QueryHits(g, posf, QueryCells(posf[id][1], posf[id][2], radius), 1, posf[id][1], posf[id][2], radius, id)

\* the positions the entities of this grid take: two in the first cell, one in the second
OptPoints == {<<0, 0>>, <<1, 1>>, <<MaxGridW - 1, 0>>}

OptInit ==
    /\ optGrid = optNew
    /\ optPos = [e \in GridEntities |-> <<0, 0>>]
    /\ optLast = [op |-> "new", id |-> ""]

\* the entity moves to p (or stays) and is inserted
OInsert(e, p) ==
    /\ Len(optGrid.cells[getCellIndex(p[1], p[2])]) < MaxCellLen
    /\ optPos' = [optPos EXCEPT ![e] = p]
    /\ optGrid' = optInsert(optGrid, e, p[1], p[2])
    /\ optLast' = [op |-> "insert", id |-> e]
    /\ UNCHANGED optFrame

\* the entity moves to p (or stays) and is updated
OUpdate(e, p) ==
    /\ Len(optGrid.cells[getCellIndex(p[1], p[2])]) < MaxCellLen
    /\ optPos' = [optPos EXCEPT ![e] = p]
    /\ optGrid' = optUpdate(optGrid, e, p[1], p[2])
    /\ optLast' = [op |-> "update", id |-> e]
    /\ UNCHANGED optFrame

ORemove(e) ==
    /\ optGrid' = optRemove(optGrid, e)
    /\ optLast' = [op |-> "remove", id |-> e]
    /\ UNCHANGED <<optPos, optFrame>>

(***************************************************************************)
(* Specifications.  Each one drives one component and leaves the others in *)
(* their initial state.                                                    *)
(***************************************************************************)
Init ==
    /\ GridInit
    /\ LoopInit
    /\ DuelInit
    /\ WorldStart(DefaultWorldCfg)
    /\ TwinInit
    /\ ControlsInit
    /\ PairInit
    /\ MemoryInit
    /\ ResetInit
    /\ BounceInit
    /\ RafInit
    /\ PasteInit
    /\ OptInit

GridNext ==
    \/ \E e \in GridEntities, p \in GridPoints : GInsert(e, p)
    \/ \E e \in GridEntities, p \in GridPoints : GUpdate(e, p)
    \/ \E e \in GridEntities : GRemove(e)
    \/ \E w \in GridWidths, h \in GridHeights : GResize(w, h)
    \/ GClear

SpecGrid == Init /\ [][GridNext]_vars

LoopNext ==
    \/ LoopStart
    \/ LoopStop
    \/ \E dt \in FrameDeltas : FrameBegin(dt)
    \/ FrameUpdate
    \/ FrameEnd

SpecLoop == Init /\ [][LoopNext]_vars

DuelNext ==
    \/ \E s1, s2 \in StrategyTypes, e1, e2 \in DuelEnergies, t1, t2 \in DuelTraits,
          m1, m2 \in DuelMemories, x2 \in DuelPositions : DuelMeet(s1, s2, e1, e2, t1, t2, m1, m2, x2)
    \/ \E rnd1, rnd2 \in RandomDraws : DuelResolve(rnd1, rnd2)

SpecInteract == Init /\ [][DuelNext]_vars

InitWorld ==
    /\ GridInit
    /\ LoopInit
    /\ DuelInit
    /\ TwinInit
    /\ ControlsInit
    /\ PairInit
    /\ MemoryInit
    /\ ResetInit
    /\ BounceInit
    /\ RafInit
    /\ PasteInit
    /\ OptInit
    /\ \E cfg \in WorldCfgs : WorldStart(cfg)

WorldNext ==
    \/ \E cost \in DrainCosts : UpdateCall(cost)
    \/ \E rnd1, rnd2 \in RandomDraws : InteractPhase(rnd1, rnd2)
    \/ \E ch \in EvolutionChoices : EvolvePhase(ch)
    \/ \E count \in 0..1 : FoodSpawnPhase(count, 1)
    \/ CleanupPhase

SpecWorld == InitWorld /\ [][WorldNext]_vars

InitMelee ==
    /\ GridInit
    /\ LoopInit
    /\ DuelInit
    /\ TwinInit
    /\ ControlsInit
    /\ PairInit
    /\ MemoryInit
    /\ ResetInit
    /\ BounceInit
    /\ RafInit
    /\ PasteInit
    /\ OptInit
    /\ \E cfg \in MeleeCfgs : WorldStart(cfg)

SpecMelee == InitMelee /\ [][WorldNext]_vars

ControlNext ==
    \/ \E cost \in DrainCosts : UpdateCall(cost)
    \/ \E cost \in DrainCosts : StepCall(cost)
    \/ \E rnd1, rnd2 \in RandomDraws : InteractPhase(rnd1, rnd2)
    \/ \E ch \in EvolutionChoices : EvolvePhase(ch)
    \/ \E count \in 0..1 : FoodSpawnPhase(count, 1)
    \/ CleanupPhase
    \/ \E value \in BOOLEAN : SetPaused(value)
    \/ \E value \in TimeScaleInputs : SetTimeScale(value)

SpecControl == Init /\ [][ControlNext]_vars

TwinNext ==
    \/ \E seed \in Seeds : \E wa, wb \in TwinWorlds(seed) : TwinReset(seed, wa, wb)
    \/ \E cost \in DrainCosts, rndA, rndB \in SpawnDraws, ch \in EvolutionChoices :
          TwinTick(cost, rndA, rndB, ch, 1)

SpecTwin == Init /\ [][TwinNext]_vars

PanelNext ==
    \/ \E strategy \in StrategyTypes, value \in SliderValues : SetSlider(strategy, value)
    \/ \E draws \in SpawnDrawSeqs : ResetClick(draws)
    \/ \E preset \in Presets, draws \in SpawnDrawSeqs : PresetChange(preset, draws)
    \/ \E numbers \in ImportNumbers, ratiosIn \in ImportRatios, draws \in SpawnDrawSeqs :
          ImportConfig(numbers, ratiosIn, draws)

SpecPanel == Init /\ [][PanelNext]_vars

\* the sliders moved before a paste, and the draws of the reset of an accepted import
PasteSliders == {"Aggressive", "Passive"}

PasteDraws == {draws \in SpawnDrawSeqs : \A i \in DOMAIN draws : draws[i] = draws[1]}

ImportNext ==
    \/ \E strategy \in PasteSliders, value \in SliderValues : SetSlider(strategy, value)
    \/ \E raw \in PastedTexts, numbers \in ImportNumbers, ratiosIn \in ImportRatios, draws \in PasteDraws :
          PasteClick(raw, numbers, ratiosIn, draws)
    \/ StatusTimeout

SpecImport == Init /\ [][ImportNext]_vars

OptNext ==
    \/ \E e \in GridEntities, p \in OptPoints : OInsert(e, p)
    \/ \E e \in GridEntities, p \in OptPoints : OUpdate(e, p)
    \/ \E e \in GridEntities : ORemove(e)

SpecOptGrid == Init /\ [][OptNext]_vars

PairNext ==
    \/ \E s1, s2 \in PairStrategies, timeScale \in PairTimeScales : PairStart(s1, s2, timeScale)
    \/ \E cost \in PairCosts, rnd \in RandomDraws, ch \in EvolutionChoices : PairTick(cost, rnd, ch)

SpecPair == Init /\ [][PairNext]_vars

MemoryNext ==
    \E otherId \in Opponents, action \in RememberedActions, dt \in ClockSteps :
        Remember(otherId, action, dt)

SpecMemory == Init /\ [][MemoryNext]_vars

InitReset ==
    /\ GridInit
    /\ LoopInit
    /\ DuelInit
    /\ TwinInit
    /\ ControlsInit
    /\ PairInit
    /\ MemoryInit
    /\ ResetInit
    /\ BounceInit
    /\ RafInit
    /\ PasteInit
    /\ OptInit
    /\ ResetStart

ResetNext ==
    \/ \E cost \in DrainCosts : UpdateCall(cost)
    \/ \E rnd1, rnd2 \in RandomDraws : InteractPhase(rnd1, rnd2)
    \/ \E ch \in EvolutionChoices : EvolvePhase(ch)
    \/ \E count \in 0..1 : FoodSpawnPhase(count, 1)
    \/ CleanupPhase
    \/ \E value \in {TRUE} : SetPaused(value)
    \/ \E value \in {CHOOSE v \in TimeScaleInputs : \A u \in TimeScaleInputs : u <= v} : SetTimeScale(value)
    \/ \E cfg \in ResetConfigs : ResetCall(cfg)

SpecReset == InitReset /\ [][ResetNext]_vars

BounceNext ==
    \/ \E x \in BounceSpawnsPx, dir \in {-1, 1}, speed \in BounceSpeeds, timeScale \in BounceScales :
           BounceSpawn(x, dir, speed, timeScale)
    \/ \E force \in SteeringForces : BounceTick(force)
    \/ \E dir \in {-1, 1} : BounceKnock(dir)

SpecBounce == Init /\ [][BounceNext]_vars

RafNext ==
    \/ StartAnywhere
    \/ StopAnywhere
    \/ \E id \in 1..MaxRafRequests, deltaTime \in RafDeltas : RafFrameBegin(id, deltaTime)
    \/ RafFrameUpdate
    \/ RafRender
    \/ RafFrameEnd

SpecCallbacks == Init /\ [][RafNext]_vars

(***************************************************************************)
(* C1: queryRadius(p, r) returns exactly the tracked entities within       *)
(* Euclidean distance r of p, each exactly once, for every query point and *)
(* every radius, also with points and entities on or outside the bounds.   *)
(***************************************************************************)
QueryExact(hits, px, py, r) ==
    \A e \in GridEntities :
        Occurrences(hits, grid, e) =
            IF e \in GridTracked /\ DistSq(px, py, entPos[e][1], entPos[e][2]) <= r * r
            THEN 1 ELSE 0

C1_QueryRadiusExact ==
    \A p \in GridPoints, r \in GridRadii :
        /\ QueryExact(queryRadius(grid, entPos, p[1], p[2], r), p[1], p[2], r)
        /\ QueryExact(queryRadiusOptimized(grid, entPos, p[1], p[2], r), p[1], p[2], r)

(***************************************************************************)
(* C2: every tracked entity is a member of exactly one cell, the cell of   *)
(* the position it had at its last insert/update (or at the last resize);  *)
(* an entity that is not tracked is in no cell.                            *)
(***************************************************************************)
CellsHolding(e) == {key \in DOMAIN grid.cells : e \in grid.cells[key]}

C2_OneCellPerEntity ==
    \A e \in GridEntities :
        IF e \in DOMAIN grid.entityMap
        THEN /\ e \in DOMAIN grid.entityCells
             /\ CellsHolding(e) = {getCellKey(grid, entPos[e][1], entPos[e][2])}
             /\ grid.entityCells[e] = getCellKey(grid, entPos[e][1], entPos[e][2])
        ELSE /\ CellsHolding(e) = {}
             /\ e \notin DOMAIN grid.entityCells

\* witness: an entity that moved to another cell, was re-homed by a resize, beside a removed one
C2_Witness ==
    /\ grid.width < MaxGridW
    /\ "e1" \in DOMAIN grid.entityMap
    /\ entPos["e1"][1] > grid.width
    /\ "e2" \notin DOMAIN grid.entityMap
    /\ entPos["e2"] # <<0, 0>>
    /\ Cardinality(DOMAIN grid.cells) >= 2

(***************************************************************************)
(* C6: in each frame callback the update function is called at most 5      *)
(* times, each time with the fixed timestep; when the cap is reached the   *)
(* remaining accumulated time is discarded, and after every frame the      *)
(* accumulator is below one timestep.                                      *)
(***************************************************************************)
C6_UpdatesCapped ==
    /\ Len(updCalls) <= maxUpdates
    /\ \A i \in 1..Len(updCalls) : updCalls[i] = timeStep
    /\ loopPc = "idle" =>
          /\ accumulator >= 0
          /\ accumulator < timeStep
          /\ Len(updCalls) = maxUpdates => accumulator = 0

\* witness: a frame that ran 5 updates and dropped a backlog of more than one timestep
C6_Witness ==
    /\ loopPc = "idle"
    /\ Len(updCalls) = maxUpdates
    /\ loopDropped > timeStep
    /\ accumulator = 0

(***************************************************************************)
(* C4: in every resolved encounter in which neither side chose IGNORE, the *)
(* energy change of each side before the clamp is the payoff-matrix entry  *)
(* of the action pair (the stored pair for a stored key, the swapped pair  *)
(* of the reversed key otherwise) minus FIGHT_COST for exactly the sides   *)
(* that chose FIGHT; the switch of the batched system gives the same pair. *)
(***************************************************************************)
MatrixEntry(action1, action2) ==
    IF PayoffKey(action1, action2) \in DOMAIN PAYOFF
    THEN PAYOFF[PayoffKey(action1, action2)]
    ELSE <<PAYOFF[PayoffKey(action2, action1)][2], PAYOFF[PayoffKey(action2, action1)][1]>>

C4_DeltaIsPayoffMinusSurcharge ==
    \A i \in 1..Len(lastRes) :
        LET r == lastRes[i]
            entry == MatrixEntry(r.action1, r.action2)
        IN (r.action1 # "IGNORE" /\ r.action2 # "IGNORE") =>
              /\ r.raw[1] - r.before[1] = entry[1] - (IF r.action1 = "FIGHT" THEN FIGHT_COST ELSE 0)
              /\ r.raw[2] - r.before[2] = entry[2] - (IF r.action2 = "FIGHT" THEN FIGHT_COST ELSE 0)
              /\ calculatePayoffFast(r.action1, r.action2) = entry

\* witness: a mirrored pair (SHARE against FIGHT) was resolved and the fighter paid the surcharge
C4_Witness ==
    /\ lastRes # << >>
    /\ lastRes[1].action1 = "SHARE"
    /\ lastRes[1].action2 = "FIGHT"
    /\ lastRes[1].raw[1] - lastRes[1].before[1] = -10
    /\ lastRes[1].raw[2] - lastRes[1].before[2] = 20


(***************************************************************************)
(* C3: when a tick has ended (update has returned), every agent that is    *)
(* still in the agents list has an energy of at least 0 and at most        *)
(* MAX_ENERGY, whatever drain, food and encounters the tick brought.       *)
(***************************************************************************)
ListedAgents == {world.agentObj[world.agents[i]] : i \in 1..Len(world.agents)}

C3_EnergyInRange ==
    wpc = "idle" => \A a \in ListedAgents : a.energy >= 0 /\ a.energy <= MAX_ENERGY

\* witness: a tick ended in which one agent was held at the cap by a meal or a payoff and
\* another one starved and was removed
C3_Witness ==
    /\ wpc = "idle"
    /\ tickNo >= 1
    /\ world.stats.deaths >= 1
    /\ \E a \in ListedAgents : a.energy = MAX_ENERGY /\ a.age > 0


(***************************************************************************)
(* C5: in every resolved encounter in which a side chose IGNORE, the       *)
(* payoff is (0, 0) and no FIGHT surcharge is subtracted, so that the      *)
(* energy of each agent after the encounter is its energy before it,       *)
(* clamped to [0, MAX_ENERGY].                                             *)
(***************************************************************************)
IgnoredEncounters ==
    {i \in 1..Len(lastRes) : lastRes[i].action1 = "IGNORE" \/ lastRes[i].action2 = "IGNORE"}

C5_IgnoreKeepsClampedEnergy ==
    \A i \in IgnoredEncounters :
        LET r == lastRes[i]
        IN /\ r.outcome = <<0, 0>>
           /\ r.raw = r.before
           /\ r.agent1.energy = Max(0, Min(MAX_ENERGY, r.before[1]))
           /\ r.agent2.energy = Max(0, Min(MAX_ENERGY, r.before[2]))

\* witness: a hawk fought an agent that ignored it after the tick's drain had taken it
\* below 0; the hawk kept its energy, the other one left the encounter with 0, dead
C5_Witness ==
    /\ wpc = "evolution"
    /\ \E i \in IgnoredEncounters :
          /\ lastRes[i].action1 = "FIGHT"
          /\ lastRes[i].before[1] > 0
          /\ lastRes[i].agent1.energy = lastRes[i].before[1]
          /\ lastRes[i].before[2] < 0
          /\ lastRes[i].agent2.energy = 0
          /\ lastRes[i].agent2.isDead

\* the claim as stated: an encounter with an IGNORE leaves both energies as they were
C5_IgnoreChangesNoEnergy ==
    \A i \in IgnoredEncounters :
        /\ lastRes[i].agent1.energy = lastRes[i].before[1]
        /\ lastRes[i].agent2.energy = lastRes[i].before[2]


(***************************************************************************)
(* C7: a call of update on a paused world changes nothing: the agent and   *)
(* food lists, every agent and food object, both grids, the pools and the  *)
(* statistics are after the call what they were before it, and no tick is  *)
(* started.                                                                *)
(***************************************************************************)
C7_PausedUpdateChangesNothing ==
    [][(wpc = "idle" /\ world.paused /\ lastCall' = "update") =>
          /\ world' = world
          /\ wpc' = "idle"
          /\ tickNo' = tickNo
          /\ tickLog' = tickLog]_vars

\* witness: update was called on a world that was paused after it had run a tick
C7_Witness ==
    /\ wpc = "idle"
    /\ world.paused
    /\ lastCall = "update"
    /\ tickNo >= 1
    /\ tickNo < MaxTicks


(***************************************************************************)
(* C8: step() runs exactly one tick, both on a paused and on a running     *)
(* world: it calls update with one fixed timestep (1/60 s), which update   *)
(* multiplies by the time scale, the tick runs although the world is       *)
(* paused, and when step returns the paused flag has the value it had      *)
(* before the call.                                                        *)
(***************************************************************************)
C8_StepRunsOneScaledTick ==
    lastCall = "step" =>
        /\ tickNo = stepEntry.tickNo + 1
        /\ tickArg = FixedStep
        /\ scaledDelta * 10 = FixedStep * world.timeScale
        /\ wpc # "idle" => ~world.paused /\ wasPaused = <<stepEntry.paused>>
        /\ wpc = "idle" => world.paused = stepEntry.paused /\ wasPaused = << >>

\* witness: step has returned on a paused world running at twice the normal speed; the
\* tick advanced the world by two fixed timesteps and the world is paused again
C8_Witness ==
    /\ lastCall = "step"
    /\ wpc = "idle"
    /\ stepEntry.paused
    /\ world.paused
    /\ world.timeScale = 20
    /\ scaledDelta = 2 * FixedStep
    /\ \E a \in ListedAgents : a.age = RunAge + 2 * FixedStep

\* the claim as stated: the tick of a step advances the world by the fixed timestep
\* whatever the time scale
C8_StepAdvancesFixedStep ==
    (lastCall = "step" /\ wpc = "idle") =>
        /\ tickNo = stepEntry.tickNo + 1
        /\ scaledDelta = FixedStep
        /\ world.paused = stepEntry.paused


(***************************************************************************)
(* C9: within one update the movement of the agents comes before every     *)
(* food consumption and every resolved encounter, these come before every  *)
(* death and birth of the evolution system, and entities are released to   *)
(* the pools only after all of them, when update is about to return.       *)
(***************************************************************************)
PhaseRank(tag) ==
    CASE tag = "move" -> 1
      [] tag \in {"consume", "resolve"} -> 2
      [] tag \in {"death", "birth"} -> 3
      [] tag = "release" -> 4

C9_PhasesInOrder ==
    /\ \A i, j \in 1..Len(tickLog) : i < j => PhaseRank(tickLog[i]) <= PhaseRank(tickLog[j])
    /\ wpc = "interaction" => \A i \in 1..Len(tickLog) : PhaseRank(tickLog[i]) = 1
    /\ wpc = "evolution" => \A i \in 1..Len(tickLog) : PhaseRank(tickLog[i]) <= 2
    /\ wpc \in {"food", "cleanup"} => \A i \in 1..Len(tickLog) : PhaseRank(tickLog[i]) <= 3

\* witness: a tick with movement, a meal, an encounter, a death, a birth and a release
C9_Witness ==
    /\ wpc = "idle"
    /\ tickLog = <<"move", "consume", "resolve", "death", "birth", "release">>


(***************************************************************************)
(* C10: every agent handed out by acquireAgent, freshly constructed or     *)
(* reused from the pool, has an empty encounter memory, no interaction     *)
(* cooldowns, age 0, reproduction cooldown 0, zero acceleration, energy    *)
(* STARTING_ENERGY, isDead false, the requested traits and strategy        *)
(* (random traits and 'Random' where none is requested), an id it never    *)
(* carried before, and a velocity of DEFAULT_SPEED times its speed trait   *)
(* in a random direction.                                                  *)
(***************************************************************************)
HandedOutReset(h) ==
    /\ h.agent.encounterMemory = << >>
    /\ h.agent.interactionCooldowns = << >>
    /\ h.agent.age = 0
    /\ h.agent.reproductionCooldown = 0
    /\ h.agent.acceleration = 0
    /\ h.agent.energy = STARTING_ENERGY
    /\ ~h.agent.isDead
    /\ h.agent.traits = (IF h.traitsReq = << >> THEN h.agent.traits ELSE h.traitsReq[1])
    /\ h.agent.traits.speed \in 8..12
    /\ h.agent.strategyType = (IF h.strategyReq = "" THEN "Random" ELSE h.strategyReq)
    /\ h.agent.id \notin h.oldIds

C10_AcquiredAgentIsReset ==
    \A i \in 1..Len(acquired) :
        /\ HandedOutReset(acquired[i])
        /\ acquired[i].agent.velocity * acquired[i].agent.velocity * 100 =
               (DEFAULT_SPEED * acquired[i].agent.traits.speed) * (DEFAULT_SPEED * acquired[i].agent.traits.speed)

\* witness: the child of a reproduction was handed out on an object that had lived and
\* died under another id, with the traits and the strategy of its parent
C10_Witness ==
    \E i \in 1..Len(acquired) :
        /\ ~acquired[i].fresh
        /\ acquired[i].oldIds # {}
        /\ acquired[i].traitsReq # << >>
        /\ acquired[i].agent.traits = acquired[i].traitsReq[1]
        /\ acquired[i].agent.velocity # 0

\* the claim as stated: the agent is handed out at rest
C10_AcquiredAgentAtRest ==
    \A i \in 1..Len(acquired) :
        /\ HandedOutReset(acquired[i])
        /\ acquired[i].agent.velocity = 0


(***************************************************************************)
(* C11: two worlds built with the same seed and the same configuration and *)
(* run for the same number of fixed ticks have the same agents in the same *)
(* order, with equal positions, energies and strategies, at the initial    *)
(* spawn and after every tick.                                             *)
(***************************************************************************)
Trajectory(st) ==
    [i \in 1..Len(st.w.agents) |->
        [x |-> st.w.agentObj[st.w.agents[i]].x,
         energy |-> st.w.agentObj[st.w.agents[i]].energy,
         strategyType |-> st.w.agentObj[st.w.agents[i]].strategyType]]

C11_SameSeedSameTrajectory ==
    twinA # << >> => Trajectory(twinA[1]) = Trajectory(twinB[1])


(***************************************************************************)
(* C12: in every resolved encounter an agent whose opponent chose FIGHT    *)
(* receives an impulse of KNOCKBACK_FORCE along the line between the two,  *)
(* away from the opponent, and an agent whose opponent did not choose      *)
(* FIGHT keeps its velocity; two agents at the same position receive no    *)
(* impulse.  Both are pushed, in opposite directions, when both chose      *)
(* FIGHT; when neither chose FIGHT neither velocity changes.               *)
(***************************************************************************)
VelocityChange(r, side) ==
    IF side = 1 THEN r.agent1.velocity - r.entry[1].velocity
    ELSE r.agent2.velocity - r.entry[2].velocity

AxisDirection(r) ==
    IF r.entry[2].x > r.entry[1].x THEN 1 ELSE IF r.entry[2].x < r.entry[1].x THEN -1 ELSE 0

C12_KnockbackHitsOpponentOfFighter ==
    \A i \in 1..Len(lastRes) :
        LET r == lastRes[i]
        IN /\ VelocityChange(r, 1) = (IF r.action2 = "FIGHT" THEN -AxisDirection(r) * KNOCKBACK_FORCE ELSE 0)
           /\ VelocityChange(r, 2) = (IF r.action1 = "FIGHT" THEN AxisDirection(r) * KNOCKBACK_FORCE ELSE 0)

\* witness: a hawk fought a sharing agent standing right of it; the sharing agent was
\* pushed to the right, the hawk kept its velocity
C12_Witness ==
    /\ lastRes # << >>
    /\ lastRes[1].action1 = "FIGHT"
    /\ lastRes[1].action2 = "SHARE"
    /\ AxisDirection(lastRes[1]) = 1
    /\ VelocityChange(lastRes[1], 1) = 0
    /\ VelocityChange(lastRes[1], 2) = KNOCKBACK_FORCE

\* the claim as stated: a FIGHT on either side pushes both agents, in opposite directions
C12_KnockbackHitsBoth ==
    \A i \in 1..Len(lastRes) :
        LET r == lastRes[i]
        IN IF r.action1 = "FIGHT" \/ r.action2 = "FIGHT"
           THEN VelocityChange(r, 1) * VelocityChange(r, 2) < 0
           ELSE VelocityChange(r, 1) = 0 /\ VelocityChange(r, 2) = 0

(***************************************************************************)
(* C13: after a resolved agent-agent interaction, an agent whose strategy  *)
(* defines onEncounterResult (Cooperative, TitForTat) holds exactly one    *)
(* encounter-memory entry keyed by the other agent's id, and it records    *)
(* the action the other agent took; an agent of any other strategy has the *)
(* encounter memory it entered the interaction with.                       *)
(***************************************************************************)
RemembersAction(agent, otherId, action) ==
    /\ getMemory(agent, otherId) # << >>
    /\ getMemory(agent, otherId)[1].lastAction = action
    /\ Cardinality({i \in 1..Len(agent.encounterMemory) : agent.encounterMemory[i].agentId = otherId}) = 1

C13_LearningStrategiesRemember ==
    \A i \in 1..Len(lastRes) :
        LET r == lastRes[i]
        IN /\ IF hasOnEncounterResult(r.agent1.strategyType)
              THEN RemembersAction(r.agent1, r.agent2.id, r.action2)
              ELSE r.agent1.encounterMemory = r.entry[1].encounterMemory
           /\ IF hasOnEncounterResult(r.agent2.strategyType)
              THEN RemembersAction(r.agent2, r.agent1.id, r.action1)
              ELSE r.agent2.encounterMemory = r.entry[2].encounterMemory

\* a TitForTat agent met an Aggressive one that fought: the first remembers the FIGHT,
\* the second remembers nothing
C13_Witness ==
    /\ lastRes # << >>
    /\ lastRes[1].agent1.strategyType = "TitForTat"
    /\ lastRes[1].agent2.strategyType = "Aggressive"
    /\ lastRes[1].action2 = "FIGHT"
    /\ RemembersAction(lastRes[1].agent1, lastRes[1].agent2.id, "FIGHT")
    /\ lastRes[1].agent2.encounterMemory = << >>

\* the claim as stated: both agents remember, whatever their strategy
C13_EveryStrategyRemembers ==
    \A i \in 1..Len(lastRes) :
        /\ RemembersAction(lastRes[i].agent1, lastRes[i].agent2.id, lastRes[i].action2)
        /\ RemembersAction(lastRes[i].agent2, lastRes[i].agent1.id, lastRes[i].action1)

(***************************************************************************)
(* C14: in one tick each food item is consumed by at most one agent and    *)
(* reported once as removed; the consuming agent's energy becomes          *)
(* min(energy + food value, MAX_ENERGY); the food is marked dead for the   *)
(* rest of the tick, and from the interaction phase on no food-grid query  *)
(* returns it.                                                             *)
(***************************************************************************)
FoodGridIds(g) == DOMAIN g.entityMap \cup DOMAIN g.entityCells \cup UNION {g.cells[key] : key \in DOMAIN g.cells}

\* every food object a food-grid query around any point of the arena returns
FoodQueryHits(w) ==
    UNION {{o \in FoodObjs :
               \E i \in 1..Len(queryNear(w.foodGrid, w.foodObj, 0, x, ArenaWidth)) :
                   queryNear(w.foodGrid, w.foodObj, 0, x, ArenaWidth)[i] = o} : x \in 0..ArenaWidth}

C14_FoodEatenOnce ==
    /\ \A i, j \in 1..Len(lastEaten) : lastEaten[i].food = lastEaten[j].food => i = j
    /\ \A i \in 1..Len(lastEaten) :
           LET e == lastEaten[i]
           IN /\ e.after = Min(e.before + e.value, MAX_ENERGY)
              /\ e.id \notin FoodGridIds(world.foodGrid)
              /\ wpc \in {"evolution", "food", "cleanup"} =>
                     /\ world.foodObj[e.food].isDead
                     /\ world.foodObj[e.food].id = e.id
                     /\ e.food \notin FoodQueryHits(world)
    /\ wpc = "evolution" =>
           {world.food[k] : k \in {k \in 1..Len(world.food) : world.foodObj[world.food[k]].isDead}}
               = {lastEaten[i].food : i \in 1..Len(lastEaten)}

\* a food item was eaten by an agent that reached the energy cap with it, while a second
\* live agent stood within the consume distance of the same food
C14_Witness ==
    /\ wpc = "evolution"
    /\ Len(lastEaten) = 1
    /\ lastEaten[1].before + lastEaten[1].value > MAX_ENERGY
    /\ lastEaten[1].after = MAX_ENERGY
    /\ \E k \in 1..Len(world.agents) :
           /\ world.agents[k] # lastEaten[1].agent
           /\ ~world.agentObj[world.agents[k]].isDead
           /\ WithinConsumeDistance(world.agentObj[world.agents[k]].x, world.foodObj[lastEaten[1].food].x)

(***************************************************************************)
(* C15: whenever spawn ratios have been applied by reset, preset load or   *)
(* configuration import, the ratios used for spawning are non-negative and *)
(* sum to 1, ratios that sum to 0 having been replaced by a distribution.  *)
(***************************************************************************)
C15_AppliedRatiosSumToOne ==
    lastApply # "none" =>
        /\ \A k \in DOMAIN SpawnRatios(worldConfig).n : SpawnRatios(worldConfig).n[k] >= 0
        /\ RatioTotal(SpawnRatios(worldConfig).n) = SpawnRatios(worldConfig).d

(***************************************************************************)
(* C19: once an imported configuration record has been applied, every      *)
(* number taken from it is inside its valid range: fight cost >= 0, food   *)
(* value >= 0, mutation chance within [0, 1], and the agent cap, the agent *)
(* count and the food count non-negative.                                  *)
(***************************************************************************)
C19_ImportedNumbersInRange ==
    lastApply = "import" =>
        /\ runtimeCfg.FIGHT_COST >= 0
        /\ runtimeCfg.FOOD_VALUE >= 0
        /\ runtimeCfg.MUTATION_CHANCE >= 0
        /\ runtimeCfg.MUTATION_CHANCE <= 10
        /\ runtimeCfg.MAX_AGENTS >= 0
        /\ worldConfig.agentCount # << >> => worldConfig.agentCount[1] >= 0
        /\ worldConfig.foodCount # << >> => worldConfig.foodCount[1] >= 0

(***************************************************************************)
(* C16: once the evolution phase of a tick has run, and so at the start of *)
(* the next tick, the number of live agents in the world is at least the   *)
(* configured minimum: agents are synthesised in the tick whose deaths     *)
(* brought the population below it.                                        *)
(***************************************************************************)
C16_PopulationFloorHolds ==
    (tickNo >= 1 /\ wpc \in {"food", "cleanup", "idle"}) =>
        LiveCount(world, world.agents) >= MinPopulation

\* a tick has ended in which an agent died and a synthesised agent (starting energy,
\* age 0) restored the minimum
C16_Witness ==
    /\ wpc = "idle"
    /\ tickNo >= 1
    /\ world.stats.deaths >= 1
    /\ LiveCount(world, world.agents) = MinPopulation
    /\ \E k \in 1..Len(world.agents) :
           /\ world.agentObj[world.agents[k]].energy = STARTING_ENERGY
           /\ world.agentObj[world.agents[k]].age = 0
           /\ ~world.agentObj[world.agents[k]].isDead

(***************************************************************************)
(* C17: in every evolution phase, each agent that reproduces loses exactly *)
(* the reproduction cost (no clamp applied), and for each such parent one  *)
(* child enters the world with an energy of exactly the reproduction cost  *)
(* times the child energy fraction, whatever the parent's traits, strategy *)
(* and remaining energy; no other listed agent's energy changes.           *)
(***************************************************************************)
ListedBefore == {world.agents[k] : k \in 1..Len(world.agents)}

\* the agents whose reproduction cooldown the evolution phase has started
Parents ==
    {o \in ListedBefore : world.agentObj[o].reproductionCooldown <= 0
                           /\ world'.agentObj[o].reproductionCooldown = REPRODUCTION_COOLDOWN}

Born == {world'.agents[k] : k \in (Len(world.agents) + 1)..Len(world'.agents)}

C17_ReproductionMovesFixedEnergy ==
    [][(wpc = "evolution" /\ wpc' = "food") =>
          /\ \A o \in Parents : world'.agentObj[o].energy = world.agentObj[o].energy - REPRODUCTION_COST
          /\ \A o \in ListedBefore \ Parents : world'.agentObj[o].energy = world.agentObj[o].energy
          /\ Cardinality({c \in Born : world'.agentObj[c].energy = (REPRODUCTION_COST * 4) \div 10})
                 = Cardinality(Parents)
          /\ \A c \in Born : world'.agentObj[c].energy \in {(REPRODUCTION_COST * 4) \div 10, STARTING_ENERGY}
          /\ world'.stats.births = Cardinality(Born)]_vars

\* after an evolution phase a parent (cooldown just started, energy above the threshold
\* less the cost) and its child (age 0, child energy) are both in the world
C17_Witness ==
    /\ wpc = "food"
    /\ \E p, c \in 1..Len(world.agents) :
           /\ world.agentObj[world.agents[p]].reproductionCooldown = REPRODUCTION_COOLDOWN
           /\ world.agentObj[world.agents[p]].energy > REPRODUCTION_THRESHOLD - REPRODUCTION_COST
           /\ world.agentObj[world.agents[c]].energy = (REPRODUCTION_COST * 4) \div 10
           /\ world.agentObj[world.agents[c]].age = 0
           /\ world.agentObj[world.agents[c]].strategyType = world.agentObj[world.agents[p]].strategyType

(***************************************************************************)
(* C18: an agent with the Aggressive strategy chooses FIGHT in every       *)
(* encounter, whatever its energy, its opponent and its memory.            *)
(***************************************************************************)
C18_AggressiveAlwaysFights ==
    \A i \in 1..Len(lastRes) :
        /\ lastRes[i].agent1.strategyType = "Aggressive" => lastRes[i].action1 = "FIGHT"
        /\ lastRes[i].agent2.strategyType = "Aggressive" => lastRes[i].action2 = "FIGHT"

(***************************************************************************)
(* C20: within one InteractionSystem.update, an agent that a resolution    *)
(* has marked dead takes part in no later resolution of that update,       *)
(* neither as the agent being iterated nor as a neighbour.                 *)
(***************************************************************************)
DeadAfter(r) ==
    {a.id : a \in {b \in {r.agent1, r.agent2} : b.isDead}}

C20_DeadTakeNoFurtherPart ==
    \A i, j \in 1..Len(lastRes) :
        i < j => DeadAfter(lastRes[i]) \cap {lastRes[j].agent1.id, lastRes[j].agent2.id} = {}

(***************************************************************************)
(* C21: a pair of agents is never resolved while either of the two holds a *)
(* cooldown for the other; an unordered pair is resolved at most once per  *)
(* tick, and two resolutions of the same pair are at least                 *)
(* INTERACTION_COOLDOWN ticks apart.                                       *)
(***************************************************************************)
C21_CooldownSeparatesResolutions ==
    /\ \A i \in 1..Len(pairLog) : ~pairLog[i].onCooldown
    /\ \A i \in 1..Len(pairLog) : \A k, l \in 1..Len(pairSt[1].w.agents) :
           LET a == pairSt[1].w.agentObj[pairSt[1].w.agents[k]]
               b == pairSt[1].w.agentObj[pairSt[1].w.agents[l]]
           IN (pairLog[i].tick = pairTick /\ a.id # b.id /\ pairLog[i].ids = {a.id, b.id}) =>
                  isOnCooldown(a, b.id)
    /\ \A i, j \in 1..Len(pairLog) :
           (i < j /\ pairLog[i].ids = pairLog[j].ids) =>
               pairLog[j].tick - pairLog[i].tick >= INTERACTION_COOLDOWN

\* the same pair has been resolved twice, the second time as soon as the cooldown allowed
C21_Witness ==
    \E i, j \in 1..Len(pairLog) :
        /\ i < j
        /\ pairLog[i].ids = pairLog[j].ids
        /\ pairLog[j].tick - pairLog[i].tick = INTERACTION_COOLDOWN

(***************************************************************************)
(* C22: the encounter memory never holds more than DEFAULT_MEMORY_SIZE     *)
(* entries; a rememberEncounter call removes an opponent from the memory   *)
(* only if the memory was full and the opponent recorded was not yet       *)
(* remembered, and the opponent removed is then the one with the oldest    *)
(* timestamp.                                                              *)
(***************************************************************************)
C22_MemoryBoundedOldestEvicted ==
    /\ Len(memAgent.encounterMemory) <= DEFAULT_MEMORY_SIZE
    /\ \A k \in 1..Len(memLast) :
           LET before == memLast[k].before
               removed == MemoryIds(before) \ MemoryIds(memLast[k].after)
           IN removed # {} =>
                  /\ Len(before) = DEFAULT_MEMORY_SIZE
                  /\ memLast[k].agentId \notin MemoryIds(before)
                  /\ removed = {before[OldestIndex(before)].agentId}

\* the decisions the TitForTat agents of the logged resolutions took
TitForTatDecisions ==
    {pairLog[i].decisions[k] : i \in 1..Len(pairLog), k \in 1..2} \cap
    {d \in {pairLog[i].decisions[k] : i \in 1..Len(pairLog), k \in 1..2} : d.strategyType = "TitForTat"}

ListIds(list, objs) == {objs[list[i]].id : i \in 1..Len(list)}

\* the grid g tracks exactly the entities of the list: every map and cell of the grid
\* names the ids of the list and nothing else
GridTracksList(g, list, objs) ==
    /\ DOMAIN g.entityMap = ListIds(list, objs)
    /\ DOMAIN g.entityCells = ListIds(list, objs)
    /\ UNION {g.cells[key] : key \in DOMAIN g.cells} = ListIds(list, objs)
    /\ \A i \in 1..Len(list) : g.entityMap[objs[list[i]].id] = list[i]

\* what every reset leaves behind, apart from the pools
ResetRebuilt(r) ==
    /\ ~world.paused
    /\ world.timeScale = 10
    /\ Len(world.agents) = Len(r.config.agents)
    /\ Len(world.food) = Len(r.config.food)
    /\ \A i \in 1..Len(world.agents) : ~world.agentObj[world.agents[i]].isDead
    /\ \A i \in 1..Len(world.food) : ~world.foodObj[world.food[i]].isDead
    /\ \A i, j \in 1..Len(world.agents) : world.agents[i] = world.agents[j] => i = j
    /\ \A i, j \in 1..Len(world.food) : world.food[i] = world.food[j] => i = j
    /\ GridTracksList(world.agentGrid, world.agents, world.agentObj)
    /\ GridTracksList(world.foodGrid, world.food, world.foodObj)
    /\ ListIds(world.agents, world.agentObj) \cap ListIds(r.before.agents, r.before.agentObj) = {}
    /\ ListIds(world.food, world.foodObj) \cap ListIds(r.before.food, r.before.foodObj) = {}

(***************************************************************************)
(* C24 as stated: after World.reset(config) the world is unpaused with     *)
(* time scale 1, holds exactly the configured numbers of live agents and   *)
(* of food, each grid tracks exactly its list, nothing from before the     *)
(* reset remains, and every pre-reset entity has been released to its pool.*)
(***************************************************************************)
C24_ResetReleasesEveryEntity ==
    (lastCall = "reset") =>
        LET r == resetLog[Len(resetLog)]
        IN /\ ResetRebuilt(r)
           /\ SeqRange(r.before.agents) \subseteq SeqRange(r.released.agentPool)
           /\ SeqRange(r.before.food) \subseteq SeqRange(r.released.foodPool)

(***************************************************************************)
(* C24, amended: as above, but a pre-reset entity has been released to its *)
(* pool unless the pool already held maxSize objects when init() reached   *)
(* it; such an entity is dropped.                                          *)
(***************************************************************************)
C24_ResetReleasesUpToPoolSize ==
    (lastCall = "reset") =>
        LET r == resetLog[Len(resetLog)]
        IN /\ ResetRebuilt(r)
           /\ \/ SeqRange(r.before.agents) \subseteq SeqRange(r.released.agentPool)
              \/ Len(r.released.agentPool) = r.before.agentPoolMax
           /\ \/ SeqRange(r.before.food) \subseteq SeqRange(r.released.foodPool)
              \/ Len(r.released.foodPool) = r.before.foodPoolMax
           /\ Len(r.released.agentPool) =
                  Min(r.before.agentPoolMax, Len(r.before.agentPool) + Len(r.before.agents))
           /\ Len(r.released.foodPool) =
                  Min(r.before.foodPoolMax, Len(r.before.foodPool) + Len(r.before.food))

\* a paused world at time scale 2 that held agents, food and a dead entity has been reset
C24_Witness ==
    /\ lastCall = "reset"
    /\ resetLog[Len(resetLog)].before.paused
    /\ resetLog[Len(resetLog)].before.timeScale = 20
    /\ Len(resetLog[Len(resetLog)].before.agents) >= 2
    /\ Len(resetLog[Len(resetLog)].before.food) >= 1
    /\ Len(resetLog[Len(resetLog)].before.agentPool) >= 1
    /\ Len(world.agents) = MaxAgentsCap

(***************************************************************************)
(* C25: in bounce mode the position of a live agent lies inside the world  *)
(* rectangle at the end of every tick, for every time scale and every      *)
(* velocity up to the speed limit, also after a knockback.                 *)
(***************************************************************************)
C25_AgentsStayInsideWorld ==
    \A i \in 1..Len(bounceAgent) :
        /\ bounceAgent[i].x >= 0
        /\ bounceAgent[i].x <= Px(BounceWidthPx)

\* every agent object an agent-grid query around any point of the arena returns
AgentQueryHits(w) ==
    UNION {{o \in AgentObjs :
               \E i \in 1..Len(queryNear(w.agentGrid, w.agentObj, 0, x, ArenaWidth)) :
                   queryNear(w.agentGrid, w.agentObj, 0, x, ArenaWidth)[i] = o} : x \in 0..ArenaWidth}

C27_OneFramePendingNoLateUpdate ==
    /\ Cardinality(rafQueue) <= 1
    /\ ~lateUpdate

\* no element occurs twice in the sequence
NoRepeats(list) == \A i, j \in 1..Len(list) : list[i] = list[j] => i = j

(***************************************************************************)
(* C28: no pooled object is in use twice.  Through ticks and resets the    *)
(* free list of a pool holds no object of World.agents or World.food (so   *)
(* an object that acquire pops is not in use at that moment), no object    *)
(* occurs twice in a list or in a free list, and a free list never holds   *)
(* more than maxSize objects.                                              *)
(***************************************************************************)
C28_PooledObjectsNotInUse ==
    /\ SeqRange(world.agentPool) \cap SeqRange(world.agents) = {}
    /\ SeqRange(world.foodPool) \cap SeqRange(world.food) = {}
    /\ NoRepeats(world.agentPool)
    /\ NoRepeats(world.foodPool)
    /\ NoRepeats(world.agents)
    /\ NoRepeats(world.food)
    /\ Len(world.agentPool) <= world.agentPoolMax
    /\ Len(world.foodPool) <= world.foodPoolMax
    /\ \A k \in 1..Len(resetLog) :
           /\ NoRepeats(resetLog[k].released.agentPool)
           /\ NoRepeats(resetLog[k].released.foodPool)
           /\ Len(resetLog[k].released.agentPool) <= resetLog[k].before.agentPoolMax
           /\ Len(resetLog[k].released.foodPool) <= resetLog[k].before.foodPoolMax
    /\ \A i \in 1..Len(acquired) :
           /\ acquired[i].fresh \/ acquired[i].oldIds # {}
           /\ \A j \in 1..Len(acquired) : acquired[i].obj = acquired[j].obj => i = j

\* a reset filled the agent pool and had to drop an agent, its spawn loop reused a pooled
\* object, and an evolution phase has acquired a pooled object
C28_Witness ==
    /\ resetLog # << >>
    /\ Len(resetLog[1].released.agentPool) = resetLog[1].before.agentPoolMax
    /\ \E i \in 1..Len(resetLog[1].before.agents) :
           resetLog[1].before.agents[i] \notin SeqRange(resetLog[1].released.agentPool)
    /\ \E i \in 1..Len(world.agents) : world.agents[i] \in SeqRange(resetLog[1].released.agentPool)
    /\ \E i \in 1..Len(acquired) : ~acquired[i].fresh

(***************************************************************************)
(* C29: a configuration import that is rejected leaves the simulation as   *)
(* it was.  When the pasted record is not an object, or carries a version  *)
(* other than the number 1, the click handler changes no configuration     *)
(* value, slider ratio, seed or spawned population, applies no reset, and  *)
(* ends in its catch block.                                                *)
(***************************************************************************)
C29_RejectedImportChangesNothing ==
    \A i \in 1..Len(pasteLog) :
        (/\ pasteLog[i].record.text = "json"
         /\ \/ pasteLog[i].record.type \notin {"object", "array"}
            \/ /\ pasteLog[i].record.version # << >>
               /\ pasteLog[i].record.version[1] # [type |-> "number", value |-> 1])
        => /\ pasteLog[i].after = pasteLog[i].before
           /\ pasteLog[i].ended = "caught"

\* a record of version 2 with a seed was pasted into a panel with moved sliders and was
\* rejected
C29_Witness ==
    /\ pasteLog # << >>
    /\ pasteLog[1].record.type = "object"
    /\ pasteLog[1].record.version = <<[type |-> "number", value |-> 2]>>
    /\ pasteLog[1].record.seed # << >>
    /\ pasteLog[1].ended = "caught"
    /\ ratioSliders # STRATEGY_SPAWN
    /\ configStatus = "Invalid config JSON."

\* the number of entries of the cells of the grid that hold the entity
StoredCount(g, id) ==
    Cardinality({<<c, i>> \in (DOMAIN g.cells) \X (1..MaxCellLen) : i <= Len(g.cells[c]) /\ g.cells[c][i] = id})

(***************************************************************************)
(* C30: insert of SpatialGridOptimized is idempotent.  Whatever inserts,   *)
(* updates and removes were made, a tracked entity is stored exactly once, *)
(* queryRadius and queryNear return no entity twice, and an entity that    *)
(* was just removed is stored nowhere and returned by no query.            *)
(***************************************************************************)
C30_InsertIdempotent ==
    /\ \A e \in DOMAIN optGrid.entityCells : StoredCount(optGrid, e) = 1
    /\ \A p \in GridPoints, r \in GridRadii : NoRepeats(optQueryRadius(optGrid, optPos, p[1], p[2], r))
    /\ \A e \in GridEntities, r \in GridRadii : NoRepeats(optQueryNear(optGrid, optPos, e, r))
    /\ optLast.op = "remove" =>
           /\ StoredCount(optGrid, optLast.id) = 0
           /\ \A p \in GridPoints, r \in GridRadii :
                  optLast.id \notin SeqRange(optQueryRadius(optGrid, optPos, p[1], p[2], r))
           /\ \A e \in GridEntities, r \in GridRadii :
                  optLast.id \notin SeqRange(optQueryNear(optGrid, optPos, e, r))

=============================================================================
